---- MODULE Spec2Model ----
(***************************************************************************)
(* Model of fourelement.py (momentum trading strategy back-tester):        *)
(* the TradeManager position ledger, the per-bar simulation loop of        *)
(* momentum() and the signal scorer signals().                             *)
(*                                                                         *)
(* Numbers.  The program computes in float32/float64.  The model computes  *)
(* exactly, on integers: every price and money amount is a whole number of *)
(* ticks (Dollar ticks to the dollar).  The inputs are drawn from sets     *)
(* chosen so that each product the code forms (x 1.001, x 0.999, x 0.65,   *)
(* ATR x 1.0/1.5/2.0/2.5 x 1.0/1.2/1.5, 3 x ATR x (1 + ADX/100)) is a      *)
(* whole number of ticks: Open is a multiple of 4000 ticks and ATR a       *)
(* multiple of 100 ticks.  A momentum score is the exact fraction          *)
(* num / den.  Rounding error of the floating-point types is therefore     *)
(* not modelled; int(x) is truncation toward zero.                         *)
(***************************************************************************)
EXTENDS Integers, Sequences, FiniteSets, TLC

\* ------------------------------------------------------------------ bounds
\* Number of ledger calls explored by Spec.
MaxCalls == 3

\* ------------------------------------------------------- program constants
\* ticks per dollar (a scale of the model, 200)
Dollar == 20 * 10
\* INITIAL_CAPITAL = 25000.0
INITIAL_CAPITAL == 25000 * Dollar
\* COMMISION = False
COMMISION == FALSE
\* DEFAULT_LONG_RISK = 0.05, in percent
DEFAULT_LONG_RISK == 5

\* ---------------------------------------------------------------- numbers
Max(a, b) == IF a >= b THEN a ELSE b
Min(a, b) == IF a <= b THEN a ELSE b
Abs(a) == IF a >= 0 THEN a ELSE -a
\* int(a / b) for b > 0: Python's int() truncates toward zero
Trunc(a, b) == IF a >= 0 THEN a \div b ELSE -((-a) \div b)

RECURSIVE SumSeq(_)
SumSeq(s) == IF s = <<>> THEN 0 ELSE Head(s) + SumSeq(Tail(s))

\* transaction_price * (1 + 0.001), the caller's entry price
BuyPrice(open) == (open * 1001) \div 1000
\* np.float32(current_price) * (1 - 0.001), applied inside process_exits
SellPrice(price) == (price * 999) \div 1000

\* ------------------------------------------------------------ the ledger
\* TradeManager.__init__
NewTradeManager ==
  [ portfolio_value   |-> INITIAL_CAPITAL,
    position_count    |-> 0,
    allocated_capital |-> 0,
    position_counter  |-> 0,
    trade_log         |-> <<>>,
    wins              |-> <<>>,
    losses            |-> <<>>,
    active_trades     |-> <<>> ]

\* sum over the open positions of remaining_shares * entry_price
Exposure(rows) ==
  SumSeq([k \in 1..Len(rows) |-> rows[k].remaining_shares * rows[k].entry_price])

\* TradeManager.unrealized_pnl
unrealized_pnl(T, current_price) ==
  SumSeq([k \in 1..Len(T.active_trades) |->
            (current_price - T.active_trades[k].entry_price)
              * T.active_trades[k].remaining_shares])

\* TradeManager.calculate_commission; with COMMISION the percentage model,
\* shares * price * 0.0005, floored at $1.00
calculate_commission(shares, price) ==
  IF COMMISION THEN Max(Dollar, (shares * price) \div 2000) ELSE 0

\* TradeManager.exit_pnl: the net PnL it returns
PnlNet(trade, exit_price, shares_to_exit) ==
  (exit_price - trade.entry_price) * shares_to_exit
    - calculate_commission(shares_to_exit, exit_price)

\* TradeManager.exit_pnl: the closed-trade record and the win/loss lists
exit_pnl(T, trade, exit_date, exit_price, shares_to_exit, reason) ==
  LET pnl_net == PnlNet(trade, exit_price, shares_to_exit)
      is_complete_exit == shares_to_exit >= trade.remaining_shares
      rec == [ position_id |-> trade.position_id,
               entry_date  |-> trade.entry_date,
               exit_date   |-> exit_date,
               entry_price |-> trade.entry_price,
               exit_price  |-> exit_price,
               shares      |-> shares_to_exit,
               original_shares |-> trade.share_amount,
               pnl         |-> pnl_net,
               duration    |-> exit_date - trade.entry_date,
               reason      |-> reason,
               is_complete_exit |-> is_complete_exit,
               remaining   |-> IF is_complete_exit THEN 0
                               ELSE trade.remaining_shares - shares_to_exit ]
  IN [T EXCEPT !.trade_log = Append(@, rec),
               !.wins   = IF pnl_net > 0 THEN Append(@, pnl_net) ELSE @,
               !.losses = IF pnl_net > 0 THEN @ ELSE Append(@, pnl_net)]

\* ------------------------------------------------- TradeManager.process_exits
\* int(current_shares * Trim); Trim is given in percent (Trim = 0.07 is 7).
\* For the fractions the program passes (0.05, 0.07, 0.1, 0.15, 0.2, 0.25,
\* 0.3, 0.5) and for 1.0 the float product truncates to the exact floor.
SharesToExit(current_shares, Trim) == (current_shares * Trim) \div 100

\* self.allocated_capital -= (current_price * shares)
ReleaseAllocated(allocated, current_price, shares) ==
  allocated - current_price * shares

\* self.portfolio_value += pnl
MutAddPnl(portfolio_value, pnl) == portfolio_value + Max(pnl, 0)
AddPnl(portfolio_value, pnl) == portfolio_value + pnl

\* a full exit of one position: exit_pnl, cash, allocated capital, count
FullExit(S, trade, idx, date, price, shares, reason) ==
  LET T1 == exit_pnl(S.tm, trade, date, price, shares, reason)
      pnl == PnlNet(trade, price, shares)
  IN [ tm |-> [T1 EXCEPT
                 !.portfolio_value = AddPnl(@, pnl),
                 !.allocated_capital = ReleaseAllocated(@, price, shares),
                 !.position_count = @ - 1],
       removed |-> S.removed \cup {idx},
       total |-> S.total + pnl ]

\* the partial exit keeps the row when shares remain
MutKeepsRowAfterPartial(remaining_shares) == remaining_shares >= 0
KeepsRowAfterPartial(remaining_shares) == remaining_shares > 0

\* the Trim > 0 branch: no continue follows it
PartialExit(S, trade, idx, date, price, Trim, reason) ==
  LET current_shares == trade.remaining_shares
      shares_to_exit == SharesToExit(current_shares, Trim)
      T1 == exit_pnl(S.tm, trade, date, price, shares_to_exit, reason)
      pnl == PnlNet(trade, price, shares_to_exit)
      remaining_shares == current_shares - shares_to_exit
      T2 == [T1 EXCEPT
               !.portfolio_value = AddPnl(@, pnl),
               !.allocated_capital = ReleaseAllocated(@, price, shares_to_exit)]
  IN IF shares_to_exit > 0
     THEN IF KeepsRowAfterPartial(remaining_shares)
          THEN [S EXCEPT
                  !.tm = [T2 EXCEPT
                            !.active_trades[idx].remaining_shares = remaining_shares],
                  !.total = @ + pnl]
          ELSE [ tm |-> [T2 EXCEPT !.position_count = @ - 1],
                 removed |-> S.removed \cup {idx},
                 total |-> S.total + pnl ]
     ELSE S

\* the take-profit and stop-loss checks that follow the signal-based exit
TakeProfitStopLoss(S, trade, idx, date, price) ==
  LET current_shares == trade.remaining_shares
  IN IF price >= trade.take_profit
     THEN FullExit(S, trade, idx, date, price, current_shares, "Take Profit")
     ELSE IF price <= trade.stop_loss
     THEN FullExit(S, trade, idx, date, price, current_shares, "Stop Loss")
     ELSE S

\* one iteration of `for idx, trade in long_trades.iterrows()`; trade is the
\* row as it was when the loop started
ExitOne(S, trade, idx, date, price, Trim, reason) ==
  IF trade.remaining_shares <= 0
  THEN [S EXCEPT !.removed = @ \cup {idx}]
  ELSE IF Trim > 0
  THEN TakeProfitStopLoss(PartialExit(S, trade, idx, date, price, Trim, reason),
                          trade, idx, date, price)
  ELSE FullExit(S, trade, idx, date, price, trade.remaining_shares, reason)

RECURSIVE ExitLoop(_, _, _, _, _, _, _)
ExitLoop(S, long_trades, idx, date, price, Trim, reason) ==
  IF idx > Len(long_trades) THEN S
  ELSE ExitLoop(ExitOne(S, long_trades[idx], idx, date, price, Trim, reason),
                long_trades, idx + 1, date, price, Trim, reason)

\* self.active_trades.drop(index=indices_to_remove).reset_index(drop=True)
MutDropRows(rows, removed) == rows
DropRows(rows, removed) ==
  LET keep == {k \in 1..Len(rows) : k \notin removed}
      F[k \in 0..Len(rows)] ==
        IF k = 0 THEN <<>>
        ELSE IF k \in keep THEN Append(F[k - 1], rows[k]) ELSE F[k - 1]
  IN F[Len(rows)]

\* process_exits: the new ledger and the returned total PnL
process_exits(T, current_date, current_price, Trim, reason) ==
  IF T.active_trades = <<>>
  THEN [tm |-> T, ret |-> 0]
  ELSE LET price == SellPrice(current_price)
           S == ExitLoop([tm |-> T, removed |-> {}, total |-> 0],
                         T.active_trades, 1, current_date, price, Trim, reason)
       IN [ tm |-> [S.tm EXCEPT !.active_trades = DropRows(@, S.removed)],
            ret |-> S.total ]

\* ------------------------------------------------- TradeManager.process_entry
\* the ATR stop-distance multiplier by ADX regime, in tenths (1.0, 2.5, 1.5)
EntryAtrMultiplier(adx) ==
  IF adx < 20 THEN 10 ELSE IF adx <= 40 THEN 25 ELSE 15

\* risk_pct by ADX regime, per mille: risk * 0.5, risk, risk * 1.2 (risk in percent)
EntryRiskPct(risk, adx) ==
  IF adx < 20 THEN risk * 5 ELSE IF adx <= 40 THEN risk * 10 ELSE risk * 12

\* stop_distance = atr * atr_multiplier
StopDistance(atr, adx) == (atr * EntryAtrMultiplier(adx)) \div 10

\* take_profit = price + 3.0 * atr * profit_multiplier,
\* profit_multiplier = 1 + adx / 100 when adx > 40, else 1.0
TakeProfit(price, atr, adx) ==
  IF adx > 40 THEN price + (3 * atr * (100 + adx)) \div 100
  ELSE price + 3 * atr

\* total_exposure > max_total_exposure (0.95):
\* (existing + notional) / portfolio_value > 0.95, the division reversing the
\* comparison for a negative portfolio_value (and never true for 0 / 0)
ExceedsExposure(existing, notional, portfolio_value) ==
  IF portfolio_value > 0
  THEN existing + notional > (19 * portfolio_value) \div 20
  ELSE 20 * (existing + notional) < 19 * portfolio_value

\* not (available_exposure > 0), available_exposure = 0.95 - current_exposure
\* and current_exposure = existing / portfolio_value
NoExposureAvailable(existing, portfolio_value) ==
  IF portfolio_value > 0 THEN 19 * portfolio_value - 20 * existing <= 0
  ELSE IF portfolio_value < 0 THEN FALSE
  ELSE existing > 0

\* shares = min(shares, adjusted_shares)
MutCapShares(shares, adjusted_shares) == shares
CapShares(shares, adjusted_shares) == Min(shares, adjusted_shares)

\* position_dollar_amount < portfolio_value * 0.001
BelowMinPosition(notional, portfolio_value) ==
  notional <= (portfolio_value - 1) \div 1000

\* self.position_count += 1 stands after the last `return False`
\* momentum: trade_manager.position_count < max_positions
MutBelowCap(position_count, max_positions) == position_count <= max_positions
BelowCap(position_count, max_positions) == position_count < max_positions

MutCountedWhen(accepted) == TRUE
CountedWhen(accepted) == accepted

\* process_entry(current_date, entry_params, 'Long'): the new ledger, the
\* returned flag and, for the record, the sizing it went through
process_entry(T, current_date, price, portfolio_value, risk, atr, adx) ==
  LET risk_per_share == Abs(price - (price - StopDistance(atr, adx)))
      initial_stop == price - StopDistance(atr, adx)
      shares_by_risk ==
        Trunc(portfolio_value * EntryRiskPct(risk, adx), 1000 * risk_per_share)
      existing == Exposure(T.active_trades)
      exceeds == ExceedsExposure(existing, shares_by_risk * price, portfolio_value)
      \* available_exposure = 0.95 - current_exposure, times 20 * portfolio_value
      available == 19 * portfolio_value - 20 * existing
      adjusted_shares == Trunc(available, 20 * price)
      shares == IF exceeds THEN CapShares(shares_by_risk, adjusted_shares)
                ELSE shares_by_risk
      position_dollar_amount == shares * price
      available_capital == T.portfolio_value - T.allocated_capital
      commission == calculate_commission(shares, price)
      new_trade == [ entry_date  |-> current_date,
                     entry_price |-> price,
                     stop_loss   |-> initial_stop,
                     take_profit |-> TakeProfit(price, atr, adx),
                     share_amount |-> shares,
                     commission  |-> commission,
                     highest_close_since_entry |-> price,
                     position_id |-> T.position_counter,
                     remaining_shares |-> shares ]
      reject(why) ==
        [tm |-> [T EXCEPT !.position_count = IF CountedWhen(FALSE) THEN @ + 1 ELSE @],
         ret |-> FALSE, why |-> why, exceeds |-> FALSE]
  IN IF risk_per_share = 0 THEN reject("risk")
     ELSE IF exceeds /\ NoExposureAvailable(existing, portfolio_value)
     THEN [reject("exposure") EXCEPT !.exceeds = TRUE]
     ELSE IF position_dollar_amount > available_capital \/ shares <= 0
     THEN [reject("capital") EXCEPT !.exceeds = exceeds]
     ELSE IF BelowMinPosition(position_dollar_amount, portfolio_value)
     THEN [reject("minimum") EXCEPT !.exceeds = exceeds]
     ELSE [ tm |-> [T EXCEPT
                      !.position_count = IF CountedWhen(TRUE) THEN @ + 1 ELSE @,
                      !.active_trades = Append(@, new_trade),
                      !.allocated_capital = @ + position_dollar_amount,
                      !.portfolio_value = @ - commission,
                      !.position_counter = @ + 1],
            ret |-> TRUE, why |-> "accepted", exceeds |-> exceeds ]

\* ------------------------------------------------ TradeManager.trailing_stops
\* base_multiplier by ADX regime, in tenths (1.0, 2.0, 1.5)
TrailAtrMultiplier(adx_value) ==
  IF adx_value < 20 THEN 10 ELSE IF adx_value <= 40 THEN 20 ELSE 15

\* profit_factor by profit_pct = (highest - entry) / entry, in tenths
ProfitLock(highest, entry_price) ==
  IF 10 * (highest - entry_price) > entry_price THEN 15
  ELSE IF 20 * (highest - entry_price) > entry_price THEN 12
  ELSE 10

\* Rule 1: new_stops = np.maximum(new_stops, stop_loss)
MutNeverBackward(new_stop, stop_loss) == new_stop
NeverBackward(new_stop, stop_loss) == Max(new_stop, stop_loss)

\* Rule 2: where unrealized_gains > 0, at least entry_price + 0.65 * gains
GainFloor(new_stop, entry_price, current_price) ==
  IF current_price - entry_price > 0
  THEN Max(new_stop, entry_price + (13 * (current_price - entry_price)) \div 20)
  ELSE new_stop

\* the row after the highest-price and stop updates
TrailRow(trade, current_price, current_atr, adx_value) ==
  LET highest == Max(trade.highest_close_since_entry, current_price)
      final_multiplier ==
        TrailAtrMultiplier(adx_value) * ProfitLock(highest, trade.entry_price)
      candidate == highest - (final_multiplier * current_atr) \div 100
      new_stop == GainFloor(NeverBackward(candidate, trade.stop_loss),
                            trade.entry_price, current_price)
  IN [trade EXCEPT !.highest_close_since_entry = highest,
                   !.stop_loss = new_stop]

\* stops_hit = current_price_arr <= self.active_trades['stop_loss'].values
MutStopHit(current_price, stop_loss) == current_price < stop_loss
StopHit(current_price, stop_loss) == current_price <= stop_loss

\* for idx in hit_indices: if idx < len(self.active_trades): process_exits(Trim=0)
RECURSIVE TrailExitLoop(_, _, _, _, _)
TrailExitLoop(T, stops_hit, idx, current_date, current_price) ==
  IF idx > Len(stops_hit) THEN T
  ELSE IF stops_hit[idx] /\ idx <= Len(T.active_trades)
  THEN TrailExitLoop(
         process_exits(T, current_date, current_price, 0, "Trailing Stop").tm,
         stops_hit, idx + 1, current_date, current_price)
  ELSE TrailExitLoop(T, stops_hit, idx + 1, current_date, current_price)

\* trailing_stops: the new ledger and whether any stop was hit
trailing_stops(T, current_price, current_date, current_atr, adx_value) ==
  IF T.active_trades = <<>> THEN [tm |-> T, ret |-> FALSE]
  ELSE LET rows == [k \in 1..Len(T.active_trades) |->
                      TrailRow(T.active_trades[k], current_price, current_atr, adx_value)]
           stops_hit == [k \in 1..Len(rows) |-> StopHit(current_price, rows[k].stop_loss)]
           T1 == [T EXCEPT !.active_trades = rows]
       IN IF \E k \in 1..Len(rows) : stops_hit[k]
          THEN [ tm |-> TrailExitLoop(T1, stops_hit, 1, current_date, current_price),
                 ret |-> TRUE ]
          ELSE [tm |-> T1, ret |-> FALSE]

\* ----------------------------------------------- TradeManager.position_health
\* A momentum score is a rational number, kept as [num, den] with den > 0
\* (the scorer yields multiples of 1 / (rows * window), see momentum_score).
ScoreAbove(score, k) == score.num > k * score.den
ScoreBelow(score, k) == score.num < k * score.den

\* strength label from adj_score = score * (1.2 - 0.5 * atr / price); price and
\* atr are taken in units of 100 ticks, which leaves atr / price as it is
StrengthLabel(current_score, current_atr, current_price) ==
  LET P == current_price \div 100
      A == current_atr \div 100
      adj == IF current_price # 0 THEN current_score.num * (12 * P - 5 * A)
             ELSE current_score.num * 12
      unit == IF current_price # 0 THEN 10 * P * current_score.den
              ELSE 10 * current_score.den
  IN IF adj > 75 * unit THEN "hyper"
     ELSE IF adj > 60 * unit THEN "very_strong"
     ELSE IF adj > 45 * unit THEN "strong"
     ELSE IF adj > 30 * unit THEN "moderate"
     ELSE "weak"

\* PROFIT_RULES: (pf_threshold in tenths, trim_pct in percent), in list order
PROFIT_RULES(strength_label) ==
  CASE strength_label = "hyper"       -> << <<20, 10>>, <<30, 20>> >>
    [] strength_label = "very_strong" -> << <<15, 15>>, <<25, 25>> >>
    [] strength_label = "strong"      -> << <<12, 20>>, <<20, 30>> >>
    [] strength_label = "moderate"    -> << <<10, 30>> >>
    [] strength_label = "weak"        -> << <<8, 50>> >>
    [] OTHER -> <<>>

\* the time-exit loop over the index labels taken before the loop
RECURSIVE HealthLoop(_, _, _, _, _, _, _)
HealthLoop(T, idx, n, current_price, current_date, current_score, max_position_duration) ==
  IF idx > n THEN T
  ELSE IF idx > Len(T.active_trades)
  THEN HealthLoop(T, idx + 1, n, current_price, current_date, current_score,
                  max_position_duration)
  ELSE LET trade == T.active_trades[idx]
           duration == current_date - trade.entry_date
           T1 == IF trade.remaining_shares > 0 /\ duration > max_position_duration
                 THEN IF ScoreAbove(current_score, 50)
                      THEN process_exits(T, current_date, current_price, 7,
                                         "Partial Trim").tm
                      ELSE process_exits(T, current_date, current_price, 0,
                                         "Max Duration").tm
                 ELSE T
       IN HealthLoop(T1, idx + 1, n, current_price, current_date, current_score,
                     max_position_duration)

\* sum of |entry_price - stop_loss| * remaining_shares
TotalRiskActive(rows) ==
  SumSeq([k \in 1..Len(rows) |->
            Abs(rows[k].entry_price - rows[k].stop_loss) * rows[k].remaining_shares])

\* the first rule, in list order, whose threshold the profit factor meets
RECURSIVE FirstRule(_, _, _, _)
FirstRule(rules, k, unrealized, risk) ==
  IF k > Len(rules) THEN 0
  ELSE IF (IF risk > 0 THEN 10 * unrealized >= rules[k][1] * risk
           ELSE 0 >= rules[k][1])
  THEN rules[k][2]
  ELSE FirstRule(rules, k + 1, unrealized, risk)

\* position_health: the new ledger (its return value is not used by momentum)
position_health(T, current_price, current_atr, current_date, current_score, max_position_duration) ==
  IF T.active_trades = <<>> THEN T
  ELSE LET unrealized_pnls_sum == unrealized_pnl(T, current_price)
           strength_label == StrengthLabel(current_score, current_atr, current_price)
           T1 == HealthLoop(T, 1, Len(T.active_trades), current_price, current_date,
                            current_score, max_position_duration)
           trim_pct == FirstRule(PROFIT_RULES(strength_label), 1, unrealized_pnls_sum,
                                 TotalRiskActive(T1.active_trades))
       IN IF T1.active_trades # <<>> /\ trim_pct > 0
          THEN process_exits(T1, current_date, current_price, trim_pct, "Profit Take").tm
          ELSE T1

\* ------------------------------------------------ prepare_data: indicators
\* FAST = 20, SLOW = 50 (moving-average windows)
FAST == 20
SLOW == 50
\* MOMENTUM_LOOKBACK = 14
MOMENTUM_LOOKBACK == 14
\* RSI_LENGTH = 14
RSI_LENGTH == 14
\* VIX_MA_PERIOD = 20
VIX_MA_PERIOD == 20

\* .rolling(window, min_periods=1): the rows of the window ending at t, and
\* the sum of a column over them
RollingCount(t, window) == Min(t, window)
RollingSum(col, t, window) == SumSeq(SubSeq(col, t - RollingCount(t, window) + 1, t))

\* A ratio column is kept as the whole number of hundred-thousandths it
\* holds; the series used here keep distinct ratios further apart than that.
Scaled(num, den) == (num * 100000) \div den

\* prepare_data's rsi_ideal_zone_raw, in twentieths: 1 inside [40, 70], a
\* linear taper from 20 up to 40 and from 70 down to 90, 0 outside
RsiZone(rsi) ==
  IF rsi >= 40 /\ rsi <= 70 THEN 20
  ELSE IF rsi >= 20 /\ rsi < 40 THEN rsi - 20
  ELSE IF rsi > 70 /\ rsi <= 90 THEN 90 - rsi
  ELSE 0

\* ta.rsi(df['Close'], length=RSI_LENGTH).fillna(0) for a series that never
\* falls: NaN (filled with 0) over the first RSI_LENGTH rows and while no
\* close has changed (0 / 0), 100 once a close has risen and none has fallen
Rsi(close, t) ==
  IF t <= RSI_LENGTH THEN 0
  ELSE IF \E k \in 2..t : close[k] > close[k - 1] THEN 100
  ELSE 0

\* The indicator columns of prepare_data for Close, Volume and VIX series
\* (Close in whole dollars) and the ATR and ADX series that ta.atr and ta.adx
\* gave; Open is taken equal to Close.
Indicators(close, volume, vix, atr, adx) ==
  [t \in 1..Len(close) |->
    LET fast_count == RollingCount(t, FAST)
        slow_count == RollingCount(t, SLOW)
        fast_sum == RollingSum(close, t, FAST)
        slow_sum == RollingSum(close, t, SLOW)
        rsi == Rsi(close, t)
    IN [ Open |-> close[t] * Dollar,
         Close |-> close[t] * Dollar,
         ATR |-> atr[t],
         ADX |-> adx[t],
         RSI |-> rsi,
         VIX |-> vix[t],
         \* the two rolling means, both times fast_count * slow_count
         fast_ma |-> fast_sum * slow_count,
         slow_ma |-> slow_sum * fast_count,
         \* Close.pct_change(MOMENTUM_LOOKBACK).fillna(0)
         price_roc_raw |->
           IF t > MOMENTUM_LOOKBACK
           THEN Scaled(close[t] - close[t - MOMENTUM_LOOKBACK],
                       close[t - MOMENTUM_LOOKBACK])
           ELSE 0,
         \* Close / fast_ma - 1
         ma_dist_raw |->
           IF fast_sum # 0 THEN Scaled(close[t] * fast_count - fast_sum, fast_sum)
           ELSE 0,
         rsi_ideal_zone_raw |-> RsiZone(rsi),
         \* ADX.diff(MOMENTUM_LOOKBACK).fillna(0)
         adx_slope_raw |->
           IF t > MOMENTUM_LOOKBACK THEN adx[t] - adx[t - MOMENTUM_LOOKBACK] ELSE 0,
         \* Volume / Volume_MA20, 1.0 when the mean is 0
         vol_accel_raw |->
           IF RollingSum(volume, t, 20) # 0
           THEN Scaled(volume[t] * RollingCount(t, 20), RollingSum(volume, t, 20))
           ELSE Scaled(1, 1),
         \* VIX_MA / VIX, 1.0 when VIX is 0
         vix_factor_raw |->
           IF vix[t] > 0
           THEN Scaled(RollingSum(vix, t, VIX_MA_PERIOD),
                       RollingCount(t, VIX_MA_PERIOD) * vix[t])
           ELSE Scaled(1, 1),
         \* ATR / Close
         atr_pct_raw |->
           IF close[t] # 0 THEN Scaled(atr[t], close[t] * Dollar) ELSE 0 ] ]

\* ---------------------------------------------------------------- signals()
\* ADX_THRESHOLD_DEFAULT = 25
ADX_THRESHOLD_DEFAULT == 25
\* VIX_ENTRY_THRESHOLD = 40
VIX_ENTRY_THRESHOLD == 40
\* MOMENTUM_VOLATILITY_LOOKBACK = 21
MOMENTUM_VOLATILITY_LOOKBACK == 21

\* A table is a sequence of rows (bars with their indicator columns), row k of
\* the model being the program's iloc[k - 1].
Column(df, f) == [k \in 1..Len(df) |-> df[k][f]]

\* Series.rank(pct=True) at entry t, times 2 * Len(col): the average rank
\* (entries below, plus half of the ties and itself) over the whole column
Rank2(col, t) ==
  2 * Cardinality({k \in 1..Len(col) : col[k] < col[t]})
    + Cardinality({k \in 1..Len(col) : col[k] = col[t]}) + 1

\* rolling(MOMENTUM_VOLATILITY_LOOKBACK, min_periods=1): the window ending at t
Window(t) == Min(t, MOMENTUM_VOLATILITY_LOOKBACK)

\* .rolling(...).rank(pct=True) at t, times 2 * Window(t)
RollingRank2(col, t) == Rank2(SubSeq(col, t - Window(t) + 1, t), Window(t))

\* momentum_score_values[t] = clip(raw_score * vol_adjustment, 0, 1) * 100, with
\*   raw_score = 0.20 * (0.6 price_roc + 0.4 ma_dist) + 0.20 * (the four others),
\*   vol_adjustment = clip(1 - vol_adjustment_rank, 0.5, 1.5),
\* as the fraction num / den, den = rows * window
momentum_score(df, t) ==
  LET n == Len(df)
      w == Window(t)
      \* raw_score * 50 * n
      raw == 3 * Rank2(Column(df, "price_roc_raw"), t)
               + 2 * Rank2(Column(df, "ma_dist_raw"), t)
               + 5 * ( Rank2(Column(df, "rsi_ideal_zone_raw"), t)
                     + Rank2(Column(df, "adx_slope_raw"), t)
                     + Rank2(Column(df, "vol_accel_raw"), t)
                     + Rank2(Column(df, "vix_factor_raw"), t) )
      \* vol_adjustment * 2 * w
      adj == Min(Max(2 * w - RollingRank2(Column(df, "atr_pct_raw"), t), w), 3 * w)
  IN [num |-> Min(Max(raw * adj, 0), 100 * n * w), den |-> n * w]

\* 'trend_signal': (fast_ma_np > slow_ma_np)
MutTrendSignal(fast_ma, slow_ma) == fast_ma >= slow_ma
TrendSignal(fast_ma, slow_ma) == fast_ma > slow_ma

\* the signal record of a row whose momentum score is `score`
SignalOf(row, score, adx_threshold) ==
     [ buy_signal |-> /\ TrendSignal(row.fast_ma, row.slow_ma)
                      /\ row.ADX > adx_threshold
                      /\ row.VIX < VIX_ENTRY_THRESHOLD
                      /\ ScoreAbove(score, 57),
       exit_signal |-> \/ ScoreBelow(score, 30)
                       \/ row.RSI > 70 /\ ScoreBelow(score, 45),
       momentum_score |-> score,
       immediate_exit |-> \/ ScoreBelow(score, 15)
                          \/ 3 * row.ADX < adx_threshold
                          \/ row.RSI > 80 ]

\* the signal record of row t
SignalRow(df, t, adx_threshold) == SignalOf(df[t], momentum_score(df, t), adx_threshold)

\* signals(df, adx_threshold), for a table that has every column
signals(df, adx_threshold) ==
  [t \in 1..Len(df) |-> SignalRow(df, t, adx_threshold)]

\* required_indicator_cols
REQUIRED_INDICATOR_COLS ==
  {"fast_ma", "slow_ma", "RSI", "Close", "Volume", "High", "Low", "ATR", "ADX",
   "Volume_MA20", "Open", "volume_confirmed", "weekly_uptrend"}
\* the other columns signals() reads: df['VIX'] and the raw components
OTHER_READ_COLS ==
  {"VIX", "price_roc_raw", "ma_dist_raw", "rsi_ideal_zone_raw", "adx_slope_raw",
   "vol_accel_raw", "atr_pct_raw", "vix_factor_raw"}
\* the columns signals() assigns
SIGNAL_COLS == {"buy_signal", "exit_signal", "momentum_score", "immediate_exit"}

\* signals() by the columns of its input: with a required column missing it
\* returns signals_df with the index and no column; otherwise it reads the
\* other columns, and df[...] of an absent column raises KeyError
SignalsOutcome(cols) ==
  IF ~(REQUIRED_INDICATOR_COLS \subseteq cols)
  THEN [raised |-> FALSE, columns |-> {}]
  ELSE IF ~(OTHER_READ_COLS \subseteq cols)
  THEN [raised |-> TRUE, columns |-> {}]
  ELSE [raised |-> FALSE, columns |-> SIGNAL_COLS]

\* ----------------------------------------------------------- process_signals
\* .iloc[i - 1]: the row before bar i (i is the program's 0-based index)
MutLagIndex(i) == i
LagIndex(i) == i - 1

\* .iloc[k] / values[k] of a column held as a sequence
At(seq, k) == seq[k + 1]

process_signals(signals_df, i, previous_day_atr, previous_day_adx) ==
  [ current_date     |-> i,
    buy_signal       |-> At(signals_df, LagIndex(i)).buy_signal,
    exit_signal      |-> At(signals_df, LagIndex(i)).exit_signal,
    immediate_exit   |-> At(signals_df, LagIndex(i)).immediate_exit,
    momentum_score   |-> At(signals_df, LagIndex(i)).momentum_score,
    previous_day_atr |-> previous_day_atr,
    previous_day_adx |-> previous_day_adx ]

\* ---------------------------------------------------------- trade_statistics
\* A statistic is a fraction num / den, or +infinity.
Infinity == [kind |-> "inf", num |-> 1, den |-> 0]
Ratio(num, den) == [kind |-> "ratio", num |-> num, den |-> den]

\* gross_profit = np.sum(wins_array), gross_loss = np.sum(losses_array), an
\* empty list standing as [0.0]
GrossProfit(wins) == SumSeq(wins)
GrossLoss(losses) == SumSeq(losses)

\* profit_factor when gross_loss == 0
MutNoLossFactor(gross_profit) == Infinity
NoLossFactor(gross_profit) ==
  IF gross_profit > 0 THEN Infinity ELSE Ratio(1, 1)

\* profit_factor of trade_statistics(equity, trade_log, wins, losses)
profit_factor(wins, losses) ==
  IF GrossLoss(losses) = 0 THEN NoLossFactor(GrossProfit(wins))
  ELSE Ratio(Abs(GrossProfit(wins)), Abs(GrossLoss(losses)))

\* -------------------------------------------------------------- risk_metrics
\* Returns and the risk-free rate are whole numbers of basis points.  On that
\* grid a series of a few values has a standard deviation above
\* min_std_threshold = 1e-8 exactly when its values are not all equal.
StdAboveThreshold(xs) == \E j, k \in 1..Len(xs) : xs[j] # xs[k]

\* (mean / std) * sqrt(252) of a series, kept as the sum and the length
Annualized(total, n) == [kind |-> "annualized", num |-> total, den |-> n]

\* 0.0 if returns_mean == 0 else np.sign(returns_mean) * 5.0
MutNearZeroStd(total) == Ratio(0, 1)
NearZeroStd(total) ==
  IF total = 0 THEN Ratio(0, 1) ELSE IF total > 0 THEN Ratio(5, 1) ELSE Ratio(-5, 1)

\* downside_returns = returns_array[returns_array < 0]
Negative(x) == x < 0

\* risk_metrics(returns_array, risk_free_daily): (sharpe, sortino)
risk_metrics(returns_array, risk_free_daily) ==
  LET n == Len(returns_array)
      unique_values == {returns_array[k] : k \in 1..n}
      excess_returns == [k \in 1..n |-> returns_array[k] - risk_free_daily]
      total == SumSeq(excess_returns)
      downside_returns == SelectSeq(returns_array, Negative)
  IN IF n <= 1 THEN [sharpe |-> Ratio(0, 1), sortino |-> Ratio(0, 1)]
     ELSE IF Cardinality(unique_values) <= 1
     THEN [sharpe |-> Ratio(0, 1), sortino |-> Ratio(0, 1)]
     ELSE [ sharpe |-> IF StdAboveThreshold(excess_returns)
                       THEN Annualized(total, n) ELSE NearZeroStd(total),
            sortino |-> IF StdAboveThreshold(downside_returns)
                        THEN Annualized(total, n) ELSE NearZeroStd(total) ]

\* ------------------------------------------------------ stationary_bootstrap
\* current_block_size = max(1, int(block_size))
MutCurrentBlockSize(block_size) == Max(1, block_size) + 1
current_block_size(block_size) == Max(1, block_size)

\* all_random_continues[i, j]: np.random.random() < p with p = 1.0 /
\* current_block_size, for a uniform draw u = num / den in [0, 1)
random_continues(u, block_size) == u.num * current_block_size(block_size) < u.den

\* t = (t + 1) % n
MutNextIndex(t, n) == Min(t + 1, n - 1)
NextIndex(t, n) == (t + 1) % n

\* t after position j of one sample (positions from 0, as in the code), for
\* the sample's row of all_random_starts and of uniform draws
RECURSIVE IndexAt(_, _, _, _, _)
IndexAt(starts, draws, block_size, n, j) ==
  IF j = 0 THEN starts[1]
  ELSE IF random_continues(draws[j + 1], block_size) THEN starts[j + 1]
  ELSE NextIndex(IndexAt(starts, draws, block_size, n, j - 1), n)

\* one sample of stationary_bootstrap with sample_length = n: the indices,
\* data.iloc[indices], and the positions where t = (t + 1) % n was taken
stationary_bootstrap(data, block_size, starts, draws) ==
  LET n == Len(data)
      indices == [k \in 1..n |-> IndexAt(starts, draws, block_size, n, k - 1)]
  IN [ indices |-> indices,
       sample |-> [k \in 1..n |-> data[indices[k] + 1]],
       stepped |-> {k \in 2..n : ~random_continues(draws[k], block_size)} ]

\* ---------------------------------------------------- walk_forward_analysis
\* OOS_WINDOW = 42, OPTIMIZATION_FREQUENCY = 126
OOS_WINDOW == 42
OPTIMIZATION_FREQUENCY == 126

\* df.iloc[:n], df.iloc[n:] and df.iloc[-n:] of a table held as the sequence
\* of its rows
IlocHead(rows, n) == SubSeq(rows, 1, Min(n, Len(rows)))
IlocFrom(rows, n) == SubSeq(rows, Min(n, Len(rows)) + 1, Len(rows))
IlocLast(rows, n) == SubSeq(rows, Max(Len(rows) - n, 0) + 1, Len(rows))

\* prepare_data(df_input, type=2) by the rows it returns: none for an empty
\* input or when the null / all-zero column check fails, else the last 2016
KeepRows(rows) == IlocLast(rows, 2016)
prepare_data(df_input, passes_checks) ==
  IF df_input = <<>> \/ ~passes_checks THEN <<>> ELSE KeepRows(df_input)

\* while len(prepared_remaining_oos) >= oos_window_size
MutLoopGuard(prepared_remaining_oos) == Len(prepared_remaining_oos) >= 1
LoopGuard(prepared_remaining_oos) == Len(prepared_remaining_oos) >= OOS_WINDOW

\* if days_processed_since_last_opt >= opt_frequency_days and step_number > 1
MutReoptimizationDue(days, step_number) ==
  days > OPTIMIZATION_FREQUENCY /\ step_number > 1
ReoptimizationDue(days, step_number) ==
  days >= OPTIMIZATION_FREQUENCY /\ step_number > 1

\* prepared_current_train = pd.concat([prepared_current_train, prepared_oos_chunk])
MutAnchored(train, chunk) == IlocFrom(train, Len(chunk)) \o chunk
Anchored(train, chunk) == train \o chunk

\* ------------------------------------------------------------- optimize()
\* What optimize(prepared_data) returns, by how the study went: None for an
\* empty table; the sorted trials when some trial completed with finite
\* values; [] when none did, which is also the case when study.optimize
\* raised (the exception is caught and printed) before any trial completed.
StudyOutcomes == {"trials", "no valid trial", "study error"}
PyNone == [kind |-> "None", trials |-> <<>>]
PyList(trials) == [kind |-> "list", trials |-> trials]
MutOptimize(prepared_data, study, step) ==
  PyList(<<[source |-> "optimize", step |-> step]>>)
optimize(prepared_data, study, step) ==
  IF prepared_data = <<>> THEN PyNone
  ELSE IF study = "trials" THEN PyList(<<[source |-> "optimize", step |-> step]>>)
  ELSE PyList(<<>>)

\* if pareto_front and len(pareto_front) > 0
YieldsParameters(pareto_front) ==
  pareto_front.kind = "list" /\ Len(pareto_front.trials) > 0

\* ------------------------------------------ walk_forward_analysis: a step
\* Sharpe ratios are whole hundredths. np.nan is its own value.
NaN == [kind |-> "nan", num |-> 0, den |-> 0]

\* stats.get('Total Trades', 0) and stats.get('Sharpe Ratio', np.nan); the
\* stats of momentum on an empty table are {}
EmptyStats == [present |-> FALSE, Total_Trades |-> 0, Sharpe_Ratio |-> 0]
GetTotalTrades(stats) == IF stats.present THEN stats.Total_Trades ELSE 0
GetSharpeRatio(stats) == IF stats.present THEN stats.Sharpe_Ratio ELSE NaN

\* (train_sharpe >= 0 and oos_sharpe >= 0) or (train_sharpe < 0 and oos_sharpe < 0)
MutSameSign(train_sharpe, oos_sharpe) == train_sharpe * oos_sharpe > 0
SameSign(train_sharpe, oos_sharpe) ==
  \/ train_sharpe >= 0 /\ oos_sharpe >= 0
  \/ train_sharpe < 0 /\ oos_sharpe < 0

\* decay_ratio_val of a step, from the Sharpe ratios after the zero-trade
\* replacement: 1.0 - abs(oos_sharpe) / max(abs(train_sharpe), 0.1), or 1.5,
\* or np.nan
decay_ratio(is_valid_train_period, is_valid_oos_period, train_sharpe, oos_sharpe) ==
  IF is_valid_train_period /\ is_valid_oos_period
  THEN IF SameSign(train_sharpe, oos_sharpe)
       THEN Ratio(Max(Abs(train_sharpe), 10) - Abs(oos_sharpe),
                  Max(Abs(train_sharpe), 10))
       ELSE Ratio(3, 2)
  ELSE NaN

\* the fields of step_result_data that come from the two runs' stats
step_metrics(train_stats, oos_stats) ==
  LET oos_trade_count == GetTotalTrades(oos_stats)
      train_trade_count == GetTotalTrades(train_stats)
      is_valid_train_period == train_trade_count > 0
      is_valid_oos_period == oos_trade_count > 0
      oos_sharpe == IF ~is_valid_oos_period THEN 0 ELSE GetSharpeRatio(oos_stats)
      train_sharpe == IF ~is_valid_train_period THEN 0
                      ELSE GetSharpeRatio(train_stats)
  IN [ train_sharpe |-> train_sharpe,
       test_sharpe |-> oos_sharpe,
       decay_ratio |-> decay_ratio(is_valid_train_period, is_valid_oos_period,
                                   train_sharpe, oos_sharpe),
       train_trades |-> train_trade_count,
       test_trades |-> oos_trade_count,
       valid_train |-> is_valid_train_period,
       valid_test |-> is_valid_oos_period,
       valid_comparison |-> is_valid_train_period /\ is_valid_oos_period ]

\* ------------------------------------------------------------ monte_carlo
\* A metric is a number Ratio(n, 1), np.inf, -np.inf or np.nan.
NegInfinity == [kind |-> "inf", num |-> -1, den |-> 0]
Number(n) == Ratio(n, 1)

HIGHER_IS_BETTER == {"profit_factor", "expectancy_pct", "avg_win_loss_ratio"}
METRIC_KEYS == HIGHER_IS_BETTER \cup {"max_drawdown"}

\* sim_array_raw[~np.isnan(sim_array_raw)]
DropNaN(values) == SelectSeq(values, LAMBDA x : x.kind # "nan")

\* array[array == np.inf] = 1e9; array[array == -np.inf] = -1e9
CapSim(x) ==
  IF x.kind = "inf" THEN Number(IF x.num > 0 THEN 10^9 ELSE -(10^9)) ELSE x

\* observed_value_for_comparison: an infinite observed value becomes 1e9 or
\* -1e9 by its sign for the higher-is-better metrics, 1e9 for max_drawdown
CapObserved(internal_key, x) ==
  IF x.kind = "inf"
  THEN IF internal_key \in HIGHER_IS_BETTER
       THEN Number(IF x.num > 0 THEN 10^9 ELSE -(10^9))
       ELSE Number(10^9)
  ELSE x

\* a >= b for two numbers
AtLeast(a, b) == a.num * b.den >= b.num * a.den

\* np.mean(array >= observed) or np.mean(array <= observed)
FractionAsGood(internal_key, array, observed) ==
  Ratio(Cardinality({k \in 1..Len(array) :
                       IF internal_key \in HIGHER_IS_BETTER
                       THEN AtLeast(array[k], observed)
                       ELSE AtLeast(observed, array[k])}),
        Len(array))

\* results['p_values'][internal_key] of process_parameter_set, from the
\* observed value of the metric and its values over the bootstrap samples
p_value(internal_key, observed_value, sim_values) ==
  LET without_nan == DropNaN(sim_values)
      sim_array_for_pvalue == [k \in 1..Len(without_nan) |-> CapSim(without_nan[k])]
      observed_value_for_comparison == CapObserved(internal_key, observed_value)
  IN IF observed_value.kind = "nan" \/ Len(sim_array_for_pvalue) = 0 THEN NaN
     ELSE FractionAsGood(internal_key, sim_array_for_pvalue,
                         observed_value_for_comparison)

\* ------------------------------------------- monte_carlo: the best set
\* a + b for two p-values, NaN if either is
AddP(a, b) ==
  IF a.kind = "nan" \/ b.kind = "nan" THEN NaN
  ELSE Ratio(a.num * b.den + b.num * a.den, a.den * b.den)

\* sum(res['p_values'].values())
SumOfPValues(p_values) ==
  AddP(AddP(AddP(p_values.profit_factor, p_values.expectancy_pct),
            p_values.avg_win_loss_ratio), p_values.max_drawdown)

\* sum(val for val in p_dict.values() if pd.notna(val))
SkipNaN(x) == IF x.kind = "nan" THEN Number(0) ELSE x
SumOfDefinedPValues(p_values) ==
  AddP(AddP(AddP(SkipNaN(p_values.profit_factor), SkipNaN(p_values.expectancy_pct)),
            SkipNaN(p_values.avg_win_loss_ratio)), SkipNaN(p_values.max_drawdown))

\* np.argmin(list) and Series.idxmin(), positions from 1: the first NaN if
\* there is one, else the first smallest
ArgMin(xs) ==
  IF \E k \in 1..Len(xs) : xs[k].kind = "nan"
  THEN CHOOSE k \in 1..Len(xs) :
         /\ xs[k].kind = "nan"
         /\ \A j \in 1..(k - 1) : xs[j].kind # "nan"
  ELSE CHOOSE k \in 1..Len(xs) :
         /\ \A j \in 1..Len(xs) : AtLeast(xs[j], xs[k])
         /\ \A j \in 1..(k - 1) : ~AtLeast(xs[k], xs[j])

\* best_set_idx of monte_carlo ('Best Overall Parameter Set') and
\* best_idx_loc of main, for the p-values of the parameter sets
best_set_idx(mc_results) ==
  ArgMin([k \in 1..Len(mc_results) |-> SumOfPValues(mc_results[k])])
best_idx_loc(mc_results) ==
  ArgMin([k \in 1..Len(mc_results) |-> SumOfDefinedPValues(mc_results[k])])

\* ---------------------------------------- signals(): the derived columns
\* the columns signals() assigns to the table it was given, in statement order
DERIVED_COLS ==
  <<"price_roc", "ma_dist", "rsi_ideal_zone_ranked", "adx_slope", "vol_accel",
    "vol_adjustment_rank", "vol_adjustment", "vix_factor_ranked">>

\* the derived columns of a table that signals() has not been given yet
NoDerived ==
  [c \in {DERIVED_COLS[k] : k \in 1..Len(DERIVED_COLS)} |-> <<>>]

\* the raw column that a ranked column is the rank of
RankedFrom(c) ==
  CASE c = "price_roc" -> "price_roc_raw"
    [] c = "ma_dist" -> "ma_dist_raw"
    [] c = "rsi_ideal_zone_ranked" -> "rsi_ideal_zone_raw"
    [] c = "adx_slope" -> "adx_slope_raw"
    [] c = "vol_accel" -> "vol_accel_raw"
    [] c = "vix_factor_ranked" -> "vix_factor_raw"

\* df['vol_adjustment'] = (1 - df['vol_adjustment_rank']).clip(0.5, 1.5),
\* times 2 * Window(t)
MutVolAdjustment(cols) ==
  LET from == IF cols.vol_adjustment # <<>> THEN cols.vol_adjustment
              ELSE cols.vol_adjustment_rank
  IN [t \in 1..Len(from) |-> Min(Max(2 * Window(t) - from[t], Window(t)), 3 * Window(t))]
vol_adjustment(cols) ==
  [t \in 1..Len(cols.vol_adjustment_rank) |->
     Min(Max(2 * Window(t) - cols.vol_adjustment_rank[t], Window(t)), 3 * Window(t))]

\* the statement df[c] = ... of signals(), on the table of rows `rows` whose
\* derived columns are `cols`: the column it assigns
Assigned(rows, cols, c) ==
  IF c = "vol_adjustment" THEN vol_adjustment(cols)
  ELSE IF c = "vol_adjustment_rank"
  THEN [t \in 1..Len(rows) |-> RollingRank2(Column(rows, "atr_pct_raw"), t)]
  ELSE [t \in 1..Len(rows) |-> Rank2(Column(rows, RankedFrom(c)), t)]

\* momentum_score_values[t], from the derived columns of the table
ScoreFrom(cols, t) ==
  LET n == Len(cols.price_roc)
      w == Window(t)
      raw == 3 * cols.price_roc[t] + 2 * cols.ma_dist[t]
               + 5 * ( cols.rsi_ideal_zone_ranked[t] + cols.adx_slope[t]
                     + cols.vol_accel[t] + cols.vix_factor_ranked[t] )
  IN [num |-> Min(Max(raw * cols.vol_adjustment[t], 0), 100 * n * w), den |-> n * w]

\* signals_df, from the table's rows and its derived columns
SignalsFrom(rows, cols, adx_threshold) ==
  [t \in 1..Len(rows) |-> SignalOf(rows[t], ScoreFrom(cols, t), adx_threshold)]

\* ------------------------------------------------------ momentum: the loop
\* if not any_trailing_stop_hit:
MutSignalExitsAllowed(hit) == TRUE
SignalExitsAllowed(hit) == ~hit

\* the process_exits call of the signal branch: its Trim (percent) and reason
SignalExitTrim(sd) ==
  IF sd.immediate_exit THEN 0
  ELSE IF ScoreAbove(sd.momentum_score, 50) THEN 5 ELSE 0
SignalExitReason(sd) ==
  IF sd.immediate_exit THEN "Immediate Exit"
  ELSE IF ScoreAbove(sd.momentum_score, 50) THEN "Partial Exit" ELSE "Exit Signal"

\* if trade_manager.position_count > 0 and not any_trailing_stop_hit:
HealthAllowed(T, hit) == T.position_count > 0 /\ ~hit

\* 1e-9 dollars, in ticks
EQUITY_FLOOR == Ratio(1, 5000000)

\* total_value = trade_manager.portfolio_value + trade_manager.unrealized_pnl(...)
total_value(T, price) == T.portfolio_value + unrealized_pnl(T, price)

\* equity_curve.iloc[i] = max(total_value, 1e-9); a total is a whole number
\* of ticks, so it is above the floor exactly when it is at least 1
MutRecordedEquity(total) == Number(total)
RecordedEquity(total) == IF total >= 1 THEN Number(total) ELSE EQUITY_FLOOR

\* np.log(current_equity_val / prev_equity_val) is a number
\* (not nan, -inf or inf)
LogReturnDefined(current_equity_val, prev_equity_val) ==
  current_equity_val.num > 0 /\ prev_equity_val.num > 0

\* The loop body by stages; S holds the ledger, whether the exit block was
\* entered (position_count > 0 at its top) and any_trailing_stop_hit.

\* any_trailing_stop_hit = trade_manager.trailing_stops(...)
BodyTrailing(T, price, sd) ==
  IF T.position_count > 0
  THEN [tm |-> trailing_stops(T, price, sd.current_date, sd.previous_day_atr,
                               sd.previous_day_adx).tm,
        hit |-> trailing_stops(T, price, sd.current_date, sd.previous_day_atr,
                               sd.previous_day_adx).ret,
        in_block |-> TRUE]
  ELSE [tm |-> T, hit |-> FALSE, in_block |-> FALSE]

\* if not any_trailing_stop_hit: the immediate exit or the exit signal
BodyExits(S, price, sd) ==
  IF /\ S.in_block
     /\ SignalExitsAllowed(S.hit)
     /\ sd.immediate_exit \/ sd.exit_signal
  THEN [S EXCEPT !.tm = process_exits(S.tm, sd.current_date, price,
                                      SignalExitTrim(sd), SignalExitReason(sd)).tm]
  ELSE S

\* if trade_manager.position_count > 0 and not any_trailing_stop_hit:
BodyHealth(S, price, sd, run_params) ==
  IF S.in_block /\ HealthAllowed(S.tm, S.hit)
  THEN position_health(S.tm, price, sd.previous_day_atr, sd.current_date,
                       sd.momentum_score, run_params.max_position_duration)
  ELSE S.tm

\* if signal_data['buy_signal'] and position_count < max_positions:
BodyEntry(T, price, sd, run_params) ==
  IF sd.buy_signal /\ BelowCap(T.position_count, run_params.max_positions)
  THEN process_entry(T, sd.current_date, BuyPrice(price), T.portfolio_value,
                     run_params.long_risk, sd.previous_day_atr,
                     sd.previous_day_adx).tm
  ELSE T

\* the ledger after the bar and the equity recorded for it
BodyTrack(T, price) ==
  [tm |-> T, equity |-> RecordedEquity(total_value(T, price))]

BodyAt(T, price, sd, run_params) ==
  BodyTrack(BodyEntry(BodyHealth(BodyExits(BodyTrailing(T, price, sd), price, sd),
                                 price, sd, run_params),
                      price, sd, run_params),
            price)

\* one pass of the loop body, for bar `bar` and the ledger T
LoopBody(T, rows, signals_df, run_params, bar) ==
  BodyAt(T, At(rows, bar).Open,
         process_signals(signals_df, bar, At(rows, bar - 1).ATR, At(rows, bar - 1).ADX),
         run_params)

\* the ledger and the equity curve after bars 1..bar of the loop
RECURSIVE LoopUpTo(_, _, _, _)
LoopUpTo(rows, signals_df, run_params, bar) ==
  IF bar = 0
  THEN [tm |-> NewTradeManager,
        equity_curve |-> [k \in 1..Len(rows) |-> Number(INITIAL_CAPITAL)]]
  ELSE LET before == LoopUpTo(rows, signals_df, run_params, bar - 1)
           body == LoopBody(before.tm, rows, signals_df, run_params, bar)
       IN [tm |-> body.tm,
           equity_curve |-> [before.equity_curve EXCEPT ![bar + 1] = body.equity]]

\* momentum(df_with_indicators, **params) of a table no other run has touched
momentum(rows, run_params) ==
  LoopUpTo(rows, signals(rows, run_params.adx_threshold), run_params, Len(rows) - 1)

\* ========================================================== specifications
VARIABLES
  tm,      \* the TradeManager object (trade_manager in momentum)
  \* Spec: any sequence of TradeManager calls
  call,    \* the last call: its name, arguments and return value
  now,     \* the date of the last call (days)
  ncalls,  \* calls made so far
  \* SpecSim: one run of momentum()
  df,                    \* df_with_indicators
  signals_df,            \* signals(df_with_indicators, adx_threshold)
  params,                \* long_risk, max_positions, adx_threshold, max_position_duration
  i,                     \* the loop index (0-based, as in the program)
  pc,                    \* the position in the loop body
  signal_data,           \* process_signals(...) of this bar
  any_trailing_stop_hit, \* the local of that name
  in_exit_block,         \* whether `if trade_manager.position_count > 0` was taken
  bar_calls,             \* the ledger calls made so far in this bar
  equity_curve,          \* equity_curve (as a sequence, entry k is iloc[k - 1])
  \* SpecSignals: two input tables
  tblA, tblB,
  agree,                 \* tblA and tblB have the same first `agree` rows
  \* SpecColumns: a run of momentum() over a table that may lack columns
  columns,               \* the columns of df_with_indicators
  signal_columns,        \* the columns of signals_df
  outcome,               \* "running", "returned", or the exception raised
  \* SpecMetrics, SpecBootstrap: one call of a function
  arg,                   \* its arguments
  result,                \* what it returned
  \* SpecWalkForward: one run of walk_forward_analysis()
  wf,                    \* its local variables
  \* SpecRuns: runs of momentum() over one shared table
  runs                   \* the table's derived columns, and each run's locals

ledgerVars == <<call, now, ncalls>>
simVars == <<df, signals_df, params, i, pc, signal_data, any_trailing_stop_hit,
             in_exit_block, bar_calls, equity_curve>>
sigVars == <<tblA, tblB, agree>>
colVars == <<columns, signal_columns, outcome>>
funVars == <<arg, result>>
wfVars == <<wf>>
mcVars == <<runs>>
vars == <<tm, ledgerVars, simVars, sigVars, colVars, funVars, wfVars, mcVars>>

NoSignal == [current_date |-> 0, buy_signal |-> FALSE, exit_signal |-> FALSE,
             immediate_exit |-> FALSE, momentum_score |-> [num |-> 0, den |-> 1],
             previous_day_atr |-> 0, previous_day_adx |-> 0]
NoParams == [long_risk |-> 0, max_positions |-> 0, adx_threshold |-> 0,
             max_position_duration |-> 0]

\* the record of a call: its name, the PnL (ret) or the flag it returned, its
\* Trim, the number of open positions and of closed-trade records before it,
\* the outcome and sizing of an entry, the portfolio value passed in, and
\* the call before it
NoCall == [op |-> "none", ret |-> 0, flag |-> FALSE, Trim |-> 0, n_before |-> 0,
           log_before |-> 0, why |-> "", exceeds |-> FALSE,
           portfolio_value |-> 0, prev_op |-> "none", prev_Trim |-> 0]

LedgerIdle == call = NoCall /\ now = 0 /\ ncalls = 0
SimIdle ==
  /\ df = <<>> /\ signals_df = <<>> /\ params = NoParams /\ i = 0 /\ pc = "idle"
  /\ signal_data = NoSignal /\ any_trailing_stop_hit = FALSE
  /\ in_exit_block = FALSE /\ bar_calls = {} /\ equity_curve = <<>>
SigIdle == tblA = <<>> /\ tblB = <<>> /\ agree = 0
ColIdle == columns = {} /\ signal_columns = {} /\ outcome = "idle"
NoArg == [f |-> "none"]
FunIdle == arg = NoArg /\ result = NoArg
WfIdle == wf = [pc |-> "idle"]
McIdle == runs = [pc |-> "idle"]

\* ================================================================ the ledger
\* Spec: any sequence of TradeManager calls, with inputs from small sets.
\* Each call is made on the day after the previous one.

\* Open prices: $100, $200, $300
Opens == {100 * Dollar, 200 * Dollar, 300 * Dollar}
\* ATR: $0, $2, $10
ATRs == {0, 2 * Dollar, 10 * Dollar}
\* ADX, one value in each regime
ADXs == {15, 30, 50}
\* momentum scores, one on each side of 50
Scores == {[num |-> 20, den |-> 1], [num |-> 90, den |-> 1]}
\* Trim fractions in percent: 0 (full exit), the loop's 0.05, and 1.0
Trims == {0, 5, 100}
\* max_position_duration values (days)
MaxDurations == {0, 15}

Called(op) == [NoCall EXCEPT !.op = op,
                 !.n_before = Len(tm.active_trades),
                 !.log_before = Len(tm.trade_log),
                 !.prev_op = call.op, !.prev_Trim = call.Trim]

Init ==
  /\ tm = NewTradeManager
  /\ LedgerIdle /\ SimIdle /\ SigIdle /\ ColIdle /\ FunIdle /\ WfIdle /\ McIdle

Step ==
  /\ ncalls < MaxCalls
  /\ ncalls' = ncalls + 1
  /\ now' = now + 1
  /\ UNCHANGED <<simVars, sigVars, colVars, funVars, wfVars, mcVars>>

\* momentum's call: process_entry(current_date, {price: open * 1.001,
\* portfolio_value: trade_manager.portfolio_value, risk, atr, adx}, 'Long')
Entry ==
  \E open \in Opens, atr \in ATRs, adx \in ADXs :
    LET r == process_entry(tm, now + 1, BuyPrice(open), tm.portfolio_value,
                           DEFAULT_LONG_RISK, atr, adx)
    IN /\ Step
       /\ tm' = r.tm
       /\ call' = [Called("process_entry") EXCEPT !.flag = r.ret, !.why = r.why,
                     !.exceeds = r.exceeds,
                     !.portfolio_value = tm.portfolio_value]

Trailing ==
  \E open \in Opens, atr \in ATRs, adx \in ADXs :
    LET r == trailing_stops(tm, open, now + 1, atr, adx)
    IN /\ Step
       /\ tm' = r.tm
       /\ call' = [Called("trailing_stops") EXCEPT !.flag = r.ret]

Exits ==
  \E open \in Opens, Trim \in Trims :
    LET r == process_exits(tm, now + 1, open, Trim, "Signal")
    IN /\ Step
       /\ tm' = r.tm
       /\ call' = [Called("process_exits") EXCEPT !.ret = r.ret, !.Trim = Trim]

Health ==
  \E open \in Opens, atr \in ATRs, score \in Scores, maxdur \in MaxDurations :
    /\ Step
    /\ tm' = position_health(tm, open, atr, now + 1, score, maxdur)
    /\ call' = Called("position_health")

Next == Entry \/ Trailing \/ Exits \/ Health

Spec == Init /\ [][Next]_vars

\* ------------------------------------------------------- entries and exits
\* SpecEntry: process_entry and process_exits calls only, at low and
\* ordinary prices, so that every rejection of process_entry is met.

\* Open prices: $20, $50
EntryOpens == {20 * Dollar, 50 * Dollar}

EntryAt ==
  \E open \in EntryOpens, atr \in ATRs, adx \in ADXs :
    LET r == process_entry(tm, now + 1, BuyPrice(open), tm.portfolio_value,
                           DEFAULT_LONG_RISK, atr, adx)
    IN /\ Step
       /\ tm' = r.tm
       /\ call' = [Called("process_entry") EXCEPT !.flag = r.ret, !.why = r.why,
                     !.exceeds = r.exceeds,
                     !.portfolio_value = tm.portfolio_value]

ExitAt ==
  \E open \in EntryOpens, Trim \in Trims :
    LET r == process_exits(tm, now + 1, open, Trim, "Signal")
    IN /\ Step
       /\ tm' = r.tm
       /\ call' = [Called("process_exits") EXCEPT !.ret = r.ret, !.Trim = Trim]

NextEntry == EntryAt \/ ExitAt

SpecEntry == Init /\ [][NextEntry]_vars

\* ======================================================= the simulation loop
\* SpecSim: one run of momentum(df_with_indicators, ...) over a small table,
\* one action per step of the loop body. Dates are bar numbers (days).

\* bars of the table after the warm-up rows
NBars == 3
\* MAX_POSITION_DURATION = 15
MAX_POSITION_DURATION == 15

\* a row of df_with_indicators: the columns signals() and momentum() read.
\* `level` stands for the raw trend, ADX-slope, volume and VIX components.
Bar(open, atr, adx, rsi, vix, uptrend, level, atr_pct) ==
  [ Open |-> open, ATR |-> atr, ADX |-> adx, RSI |-> rsi, VIX |-> vix,
    fast_ma |-> IF uptrend THEN 2 ELSE 1, slow_ma |-> IF uptrend THEN 1 ELSE 2,
    price_roc_raw |-> level, ma_dist_raw |-> level,
    rsi_ideal_zone_raw |-> RsiZone(rsi),
    adx_slope_raw |-> level, vol_accel_raw |-> level, vix_factor_raw |-> level,
    atr_pct_raw |-> atr_pct ]

Flat       == Bar(100 * Dollar, 2 * Dollar, 20, 50, 20, FALSE, 0, 3)
Strong     == Bar(100 * Dollar, 2 * Dollar, 30, 60, 20, TRUE, 2, 1)
Breakout   == Bar(120 * Dollar, 2 * Dollar, 50, 60, 20, TRUE, 3, 0)
Overbought == Bar(100 * Dollar, 2 * Dollar, 30, 85, 20, TRUE, 1, 2)
Fading     == Bar(100 * Dollar, 2 * Dollar, 30, 75, 20, FALSE, 0, 3)
Drop       == Bar(80 * Dollar, 10 * Dollar, 5, 30, 45, FALSE, 0, 3)

Rows == {Flat, Strong, Breakout, Overbought, Fading, Drop}
Warmup == <<Flat, Flat>>
Tables == {Warmup \o suffix : suffix \in [1..NBars -> Rows]}

\* momentum's keyword arguments
ParamSets ==
  { [long_risk |-> DEFAULT_LONG_RISK, max_positions |-> 2,
     adx_threshold |-> ADX_THRESHOLD_DEFAULT, max_position_duration |-> d] :
    d \in {0, MAX_POSITION_DURATION} }

\* a ledger call made by the loop, with the arguments it was given
CallRec(op, date, price, atr, adx, score, Trim, reason) ==
  [op |-> op, date |-> date, price |-> price, atr |-> atr, adx |-> adx,
   score |-> score, Trim |-> Trim, reason |-> reason]

InitSim ==
  /\ tm = NewTradeManager
  /\ LedgerIdle /\ SigIdle /\ FunIdle /\ WfIdle /\ McIdle
  /\ columns = REQUIRED_INDICATOR_COLS \cup OTHER_READ_COLS
  /\ signal_columns = SIGNAL_COLS
  /\ outcome = "running"
  /\ df \in Tables
  /\ params \in ParamSets
  /\ signals_df = signals(df, params.adx_threshold)
  /\ equity_curve = [k \in 1..Len(df) |-> Number(INITIAL_CAPITAL)]
  /\ i = 1
  /\ pc = "signals"
  /\ signal_data = NoSignal
  /\ any_trailing_stop_hit = FALSE
  /\ in_exit_block = FALSE
  /\ bar_calls = {}

\* transaction_price = prices[i]
transaction_price == At(df, i).Open

\* signal_data = process_signals(signals_df, i, atrs[i-1], adxs[i-1]);
\* if trade_manager.position_count > 0: ...
ProcessSignals ==
  /\ pc = "signals"
  /\ i < Len(df)
  /\ SIGNAL_COLS \subseteq signal_columns
  /\ signal_data' = process_signals(signals_df, i, At(df, i - 1).ATR, At(df, i - 1).ADX)
  /\ in_exit_block' = (tm.position_count > 0)
  /\ pc' = IF tm.position_count > 0 THEN "trailing" ELSE "entry"
  /\ UNCHANGED <<tm, df, signals_df, params, i, any_trailing_stop_hit, bar_calls,
                 equity_curve, ledgerVars, sigVars, colVars, funVars, wfVars, mcVars>>

\* any_trailing_stop_hit = trade_manager.trailing_stops(...)
TrailingStops ==
  /\ pc = "trailing"
  /\ LET r == trailing_stops(tm, transaction_price, signal_data.current_date,
                             signal_data.previous_day_atr,
                             signal_data.previous_day_adx)
     IN /\ tm' = r.tm
        /\ any_trailing_stop_hit' = r.ret
  /\ bar_calls' = bar_calls \cup
       {CallRec("trailing_stops", signal_data.current_date, transaction_price,
                signal_data.previous_day_atr, signal_data.previous_day_adx,
                signal_data.momentum_score, 0, "")}
  /\ pc' = "exits"
  /\ UNCHANGED <<df, signals_df, params, i, signal_data, in_exit_block,
                 equity_curve, ledgerVars, sigVars, colVars, funVars, wfVars, mcVars>>

\* if signal_data['immediate_exit']: ... elif signal_data['exit_signal']: ...
SignalExits ==
  /\ pc = "exits"
  /\ IF /\ SignalExitsAllowed(any_trailing_stop_hit)
        /\ signal_data.immediate_exit \/ signal_data.exit_signal
     THEN /\ tm' = process_exits(tm, signal_data.current_date, transaction_price,
                                 SignalExitTrim(signal_data),
                                 SignalExitReason(signal_data)).tm
          /\ bar_calls' = bar_calls \cup
               {CallRec("signal_exits", signal_data.current_date,
                        transaction_price, 0, 0, signal_data.momentum_score,
                        SignalExitTrim(signal_data), SignalExitReason(signal_data))}
     ELSE UNCHANGED <<tm, bar_calls>>
  /\ pc' = "health"
  /\ UNCHANGED <<df, signals_df, params, i, signal_data, any_trailing_stop_hit,
                 in_exit_block, equity_curve, ledgerVars, sigVars, colVars, funVars, wfVars, mcVars>>

PositionHealth ==
  /\ pc = "health"
  /\ IF HealthAllowed(tm, any_trailing_stop_hit)
     THEN /\ tm' = position_health(tm, transaction_price,
                                   signal_data.previous_day_atr,
                                   signal_data.current_date,
                                   signal_data.momentum_score,
                                   params.max_position_duration)
          /\ bar_calls' = bar_calls \cup
               {CallRec("position_health", signal_data.current_date,
                        transaction_price, signal_data.previous_day_atr, 0,
                        signal_data.momentum_score, 0, "")}
     ELSE UNCHANGED <<tm, bar_calls>>
  /\ pc' = "entry"
  /\ UNCHANGED <<df, signals_df, params, i, signal_data, any_trailing_stop_hit,
                 in_exit_block, equity_curve, ledgerVars, sigVars, colVars, funVars, wfVars, mcVars>>

\* if signal_data['buy_signal'] and position_count < max_positions:
\*     trade_manager.process_entry(current_date, entry_params, 'Long')
EntryStep ==
  /\ pc = "entry"
  /\ IF signal_data.buy_signal /\ BelowCap(tm.position_count, params.max_positions)
     THEN /\ tm' = process_entry(tm, signal_data.current_date,
                                 BuyPrice(transaction_price), tm.portfolio_value,
                                 params.long_risk, signal_data.previous_day_atr,
                                 signal_data.previous_day_adx).tm
          /\ bar_calls' = bar_calls \cup
               {CallRec("process_entry", signal_data.current_date,
                        BuyPrice(transaction_price),
                        signal_data.previous_day_atr,
                        signal_data.previous_day_adx,
                        signal_data.momentum_score, 0, "")}
     ELSE UNCHANGED <<tm, bar_calls>>
  /\ pc' = "track"
  /\ UNCHANGED <<df, signals_df, params, i, signal_data, any_trailing_stop_hit,
                 in_exit_block, equity_curve, ledgerVars, sigVars, colVars, funVars, wfVars, mcVars>>

\* equity_curve.iloc[i] = max(total_value, 1e-9), then the next i
Track ==
  /\ pc = "track"
  /\ equity_curve' = [equity_curve EXCEPT
                        ![i + 1] = RecordedEquity(total_value(tm, transaction_price))]
  /\ i' = i + 1
  /\ pc' = IF i + 1 < Len(df) THEN "signals" ELSE "done"
  /\ bar_calls' = {}
  /\ UNCHANGED <<tm, df, signals_df, params, signal_data, any_trailing_stop_hit,
                 in_exit_block, ledgerVars, sigVars, colVars, funVars, wfVars, mcVars>>

\* after the loop: final_close = df_with_indicators['Close'].iloc[-1], the
\* statistics, and the return
Finish ==
  /\ pc = "done"
  /\ outcome = "running"
  /\ outcome' = IF "Close" \in columns THEN "returned" ELSE "KeyError"
  /\ UNCHANGED <<tm, simVars, ledgerVars, sigVars, columns, signal_columns,
                 funVars, wfVars, mcVars>>

NextSim ==
  ProcessSignals \/ TrailingStops \/ SignalExits \/ PositionHealth
    \/ EntryStep \/ Track \/ Finish

SpecSim == InitSim /\ [][NextSim]_vars

\* ------------------------------------------------------ runs that hit the cap
\* SpecCap: the same loop over tables long enough for a buy signal to come
\* while a position is still open, with max_positions 1 or 2.
CapBars == 4
CapRows == {Flat, Strong, Breakout}
CapTables == {Warmup \o suffix : suffix \in [1..CapBars -> CapRows]}
CapParams ==
  { [long_risk |-> DEFAULT_LONG_RISK, max_positions |-> m,
     adx_threshold |-> ADX_THRESHOLD_DEFAULT,
     max_position_duration |-> MAX_POSITION_DURATION] : m \in {1, 2} }

InitCap ==
  /\ tm = NewTradeManager
  /\ LedgerIdle /\ SigIdle /\ FunIdle /\ WfIdle /\ McIdle
  /\ columns = REQUIRED_INDICATOR_COLS \cup OTHER_READ_COLS
  /\ signal_columns = SIGNAL_COLS
  /\ outcome = "running"
  /\ df \in CapTables
  /\ params \in CapParams
  /\ signals_df = signals(df, params.adx_threshold)
  /\ equity_curve = [k \in 1..Len(df) |-> Number(INITIAL_CAPITAL)]
  /\ i = 1
  /\ pc = "signals"
  /\ signal_data = NoSignal
  /\ any_trailing_stop_hit = FALSE
  /\ in_exit_block = FALSE
  /\ bar_calls = {}

SpecCap == InitCap /\ [][NextSim]_vars

\* ------------------------------------------------- flat and rising series
\* rows of a price series
SeriesLen == 26

\* Close in whole dollars: constant, or rising by $5 a row
FlatClose == [t \in 1..SeriesLen |-> 100]
RisingClose == [t \in 1..SeriesLen |-> 100 + 5 * t]

\* Volume, VIX, ATR and ADX series: steady, or with the last four rows on
\* doubled volume, halved VIX and ATR, and a climbing ADX; ADX stays above
\* the threshold and VIX below the ceiling on every row.
Steady ==
  [ volume |-> [t \in 1..SeriesLen |-> 10],
    vix    |-> [t \in 1..SeriesLen |-> 20],
    atr    |-> [t \in 1..SeriesLen |-> 2 * Dollar],
    adx    |-> [t \in 1..SeriesLen |-> 30] ]
Surge ==
  [ volume |-> [t \in 1..SeriesLen |-> IF t > SeriesLen - 4 THEN 20 ELSE 10],
    vix    |-> [t \in 1..SeriesLen |-> IF t > SeriesLen - 4 THEN 10 ELSE 20],
    atr    |-> [t \in 1..SeriesLen |->
                 IF t > SeriesLen - 4 THEN 2 * Dollar ELSE 4 * Dollar],
    adx    |-> [t \in 1..SeriesLen |->
                 IF t > SeriesLen - 4 THEN 40 + t - (SeriesLen - 4) ELSE 30] ]

SeriesTables ==
  { Indicators(close, other.volume, other.vix, other.atr, other.adx) :
      close \in {FlatClose, RisingClose}, other \in {Steady, Surge} }

\* momentum(df_with_indicators, **params) on the table of a series
InitSeries ==
  /\ tm = NewTradeManager
  /\ LedgerIdle /\ SigIdle /\ FunIdle /\ WfIdle /\ McIdle
  /\ columns = REQUIRED_INDICATOR_COLS \cup OTHER_READ_COLS
  /\ signal_columns = SIGNAL_COLS
  /\ outcome = "running"
  /\ df \in SeriesTables
  /\ params \in ParamSets
  /\ signals_df = signals(df, params.adx_threshold)
  /\ equity_curve = [k \in 1..Len(df) |-> Number(INITIAL_CAPITAL)]
  /\ i = 1
  /\ pc = "signals"
  /\ signal_data = NoSignal
  /\ any_trailing_stop_hit = FALSE
  /\ in_exit_block = FALSE
  /\ bar_calls = {}

SpecSeries == InitSeries /\ [][NextSim]_vars

\* ------------------------------------------------------- a price collapse
\* SpecCollapse: runs of momentum() over tables in which, after a bar that
\* can be bought, the Open falls to zero or below it.

Worthless == Bar(0, 10 * Dollar, 5, 30, 45, FALSE, 0, 3)
Collapse  == Bar(-(2000 * Dollar), 10 * Dollar, 5, 30, 45, FALSE, 0, 3)

CollapseTables ==
  { <<Flat, Flat, Strong, bought, fallen, after>> :
      bought \in {Flat, Strong, Breakout},
      fallen \in {Drop, Worthless, Collapse},
      after \in {Drop, Worthless, Collapse, Strong} }

\* momentum(df_with_indicators, **params) on such a table
InitCollapse ==
  /\ tm = NewTradeManager
  /\ LedgerIdle /\ SigIdle /\ FunIdle /\ WfIdle /\ McIdle
  /\ columns = REQUIRED_INDICATOR_COLS \cup OTHER_READ_COLS
  /\ signal_columns = SIGNAL_COLS
  /\ outcome = "running"
  /\ df \in CollapseTables
  /\ params \in ParamSets
  /\ signals_df = signals(df, params.adx_threshold)
  /\ equity_curve = [k \in 1..Len(df) |-> Number(INITIAL_CAPITAL)]
  /\ i = 1
  /\ pc = "signals"
  /\ signal_data = NoSignal
  /\ any_trailing_stop_hit = FALSE
  /\ in_exit_block = FALSE
  /\ bar_calls = {}

SpecCollapse == InitCollapse /\ [][NextSim]_vars

\* ------------------------------------------------------------ risk metrics
\* SpecMetrics: one call of risk_metrics on a short series.

\* returns in the series at most
MaxReturns == 3
\* daily returns and risk-free rates, in basis points
ReturnValues == {-2, -1, 0, 1}
RiskFreeRates == {0, 1}

SeriesUpTo(n, values) == UNION {[1..k -> values] : k \in 0..n}

InitMetrics ==
  /\ tm = NewTradeManager
  /\ LedgerIdle /\ SimIdle /\ SigIdle /\ ColIdle /\ WfIdle /\ McIdle
  /\ arg \in {[f |-> "risk_metrics", returns_array |-> xs, risk_free_daily |-> rf] :
               xs \in SeriesUpTo(MaxReturns, ReturnValues), rf \in RiskFreeRates}
  /\ result = NoArg

CallRiskMetrics ==
  /\ arg.f = "risk_metrics"
  /\ result = NoArg
  /\ result' = risk_metrics(arg.returns_array, arg.risk_free_daily)
  /\ UNCHANGED <<tm, ledgerVars, simVars, sigVars, colVars, arg, wfVars, mcVars>>

NextMetrics == CallRiskMetrics

SpecMetrics == InitMetrics /\ [][NextMetrics]_vars

\* ------------------------------------------------------------- bootstrap
\* SpecBootstrap: one sample of stationary_bootstrap over a short data
\* series, for every row of start indices and of uniform draws.

\* rows of data at most
MaxData == 3
\* uniform draws in [0, 1)
Draws == {[num |-> 0, den |-> 1], [num |-> 1, den |-> 2], [num |-> 3, den |-> 4]}
BlockSizes == {1, 2, 3}

InitBootstrap ==
  /\ tm = NewTradeManager
  /\ LedgerIdle /\ SimIdle /\ SigIdle /\ ColIdle /\ WfIdle /\ McIdle
  /\ \E n \in 1..MaxData :
       arg \in {[f |-> "stationary_bootstrap",
                 data |-> [k \in 1..n |-> 10 * k],
                 block_size |-> b, starts |-> st, draws |-> u] :
                b \in BlockSizes, st \in [1..n -> 0..(n - 1)], u \in [1..n -> Draws]}
  /\ result = NoArg

CallBootstrap ==
  /\ arg.f = "stationary_bootstrap"
  /\ result = NoArg
  /\ result' = stationary_bootstrap(arg.data, arg.block_size, arg.starts, arg.draws)
  /\ UNCHANGED <<tm, ledgerVars, simVars, sigVars, colVars, arg, wfVars, mcVars>>

NextBootstrap == CallBootstrap

SpecBootstrap == InitBootstrap /\ [][NextBootstrap]_vars

\* ----------------------------------------------------------- walk-forward
\* SpecWalkForward: walk_forward_analysis over in-sample and out-of-sample
\* tables of given lengths. A row is its position in the two tables laid end
\* to end, which is also its date order. The optimizer and the simulation
\* runs are counted, and the optimizer may or may not give new parameters.

ISLengths == {0, 100, 1900, 2100}
OOSLengths == {0, 41, 42, 100, 210, 294}

RowsFrom(first, count) == [k \in 1..count |-> first + k - 1]

NoResult == [value |-> "running", message |-> ""]
ReturnNone(message) == [value |-> "None", message |-> message]

InitWalkForward ==
  /\ tm = NewTradeManager
  /\ LedgerIdle /\ SimIdle /\ SigIdle /\ ColIdle /\ FunIdle /\ McIdle
  /\ \E is_len \in ISLengths, oos_len \in OOSLengths, passes \in BOOLEAN :
       wf = [ pc |-> "start",
              initial_is_data_raw |-> RowsFrom(1, is_len),
              full_oos_data_raw |-> RowsFrom(is_len + 1, oos_len),
              passes_checks |-> passes,
              current_train_raw |-> <<>>,
              remaining_oos_raw |-> <<>>,
              prepared_current_train |-> <<>>,
              prepared_remaining_oos |-> <<>>,
              prepared_oos_chunk |-> <<>>,
              raw_oos_chunk |-> <<>>,
              active_parameters |-> [source |-> "initial", step |-> 0],
              pareto_front |-> PyNone,
              optimize_input |-> <<>>,
              optimized |-> FALSE,
              study |-> "none",
              all_step_results |-> <<>>,
              days_processed_since_last_opt |-> 0,
              step_number |-> 0,
              optimize_calls |-> 0,
              momentum_calls |-> 0,
              result |-> NoResult ]

WfOthers == <<tm, ledgerVars, simVars, sigVars, colVars, funVars, mcVars>>

\* from the first line to the loop: the copies, prepare_data on the two
\* tables together, and the split by the in-sample length
WfStart ==
  /\ wf.pc = "start"
  /\ LET current_train_raw == wf.initial_is_data_raw
         remaining_oos_raw == wf.full_oos_data_raw
         prepared_data == prepare_data(current_train_raw \o remaining_oos_raw,
                                       wf.passes_checks)
         is_size == Len(current_train_raw)
         prepared_current_train == IlocHead(prepared_data, is_size)
     IN wf' = IF prepared_data = <<>>
              THEN [wf EXCEPT !.pc = "returned",
                     !.result = ReturnNone("Combined data is empty after preparation. Aborting WFA.")]
              ELSE IF prepared_current_train = <<>>
              THEN [wf EXCEPT !.pc = "returned",
                     !.result = ReturnNone("Initial training data is empty after preparation. Aborting WFA.")]
              ELSE [wf EXCEPT !.pc = "loop",
                     !.current_train_raw = current_train_raw,
                     !.remaining_oos_raw = remaining_oos_raw,
                     !.prepared_current_train = prepared_current_train,
                     !.prepared_remaining_oos = IlocFrom(prepared_data, is_size)]
  /\ UNCHANGED WfOthers

\* the head of a loop pass: the step number, the re-optimization check and
\* the test window; an empty test window is skipped
WfStepBegin ==
  /\ wf.pc = "loop"
  /\ LoopGuard(wf.prepared_remaining_oos)
  /\ \E study \in StudyOutcomes :
       LET step_number == wf.step_number + 1
           reoptimize == ReoptimizationDue(wf.days_processed_since_last_opt,
                                           step_number)
           optimized == reoptimize /\ wf.prepared_current_train # <<>>
           pareto_front == optimize(wf.prepared_current_train, study, step_number)
           days == IF reoptimize THEN 0 ELSE wf.days_processed_since_last_opt
           prepared_oos_chunk == IlocHead(wf.prepared_remaining_oos, OOS_WINDOW)
           raw_oos_chunk == IlocHead(wf.remaining_oos_raw, OOS_WINDOW)
           w == [wf EXCEPT
                  !.step_number = step_number,
                  !.optimize_calls = IF optimized THEN @ + 1 ELSE @,
                  !.optimized = optimized,
                  !.study = IF optimized THEN study ELSE "none",
                  !.pareto_front = IF optimized THEN pareto_front ELSE PyNone,
                  !.optimize_input =
                     IF optimized THEN wf.prepared_current_train ELSE @,
                  !.active_parameters =
                     IF optimized /\ YieldsParameters(pareto_front)
                     THEN pareto_front.trials[1] ELSE @,
                  !.prepared_oos_chunk = prepared_oos_chunk,
                  !.raw_oos_chunk = raw_oos_chunk]
       IN /\ (~optimized => study = "trials")
          /\ wf' = IF prepared_oos_chunk = <<>>
                   THEN [w EXCEPT
                          !.prepared_remaining_oos = IlocFrom(@, OOS_WINDOW),
                          !.remaining_oos_raw = IlocFrom(@, OOS_WINDOW),
                          !.days_processed_since_last_opt = days + Len(raw_oos_chunk)]
                   ELSE [w EXCEPT !.pc = "run",
                          !.days_processed_since_last_opt = days]
  /\ UNCHANGED WfOthers

\* the stats the two momentum runs of a step may return: both runs traded, or
\* the test window saw no trade
RunStats ==
  { [train |-> [present |-> TRUE, Total_Trades |-> 3, Sharpe_Ratio |-> 100],
     oos |-> [present |-> TRUE, Total_Trades |-> 3, Sharpe_Ratio |-> 50]],
    [train |-> [present |-> TRUE, Total_Trades |-> 3, Sharpe_Ratio |-> 100],
     oos |-> [present |-> TRUE, Total_Trades |-> 0, Sharpe_Ratio |-> 0]] }

\* momentum on the training window and on the test window, and the record
\* of the step
WfRun ==
  /\ wf.pc = "run"
  /\ \E stats \in RunStats :
       LET train == wf.prepared_current_train
           test == wf.prepared_oos_chunk
           metrics == step_metrics(stats.train, stats.oos)
       IN wf' = [wf EXCEPT
                  !.pc = "anchor",
                  !.momentum_calls = @ + 2,
                  !.all_step_results = Append(@,
                     [ step |-> wf.step_number,
                       train_start_date |-> train[1],
                       train_end_date |-> train[Len(train)],
                       train_days |-> Len(train),
                       test_start_date |-> test[1],
                       test_end_date |-> test[Len(test)],
                       test_days |-> Len(test),
                       train_sharpe |-> metrics.train_sharpe,
                       test_sharpe |-> metrics.test_sharpe,
                       decay_ratio |-> metrics.decay_ratio,
                       train_trades |-> metrics.train_trades,
                       test_trades |-> metrics.test_trades,
                       valid_train |-> metrics.valid_train,
                       valid_test |-> metrics.valid_test,
                       valid_comparison |-> metrics.valid_comparison,
                       parameters_used_snapshot |-> wf.active_parameters ])]
  /\ UNCHANGED WfOthers

\* 6. Update data for the next iteration (Anchoring)
WfAnchor ==
  /\ wf.pc = "anchor"
  /\ wf' = [wf EXCEPT
              !.pc = "loop",
              !.prepared_current_train = Anchored(@, wf.prepared_oos_chunk),
              !.current_train_raw = @ \o wf.raw_oos_chunk,
              !.prepared_remaining_oos = IlocFrom(@, OOS_WINDOW),
              !.remaining_oos_raw = IlocFrom(@, OOS_WINDOW),
              !.days_processed_since_last_opt = @ + Len(wf.raw_oos_chunk)]
  /\ UNCHANGED WfOthers

\* after the loop: None when no step was recorded, else the results
WfReturn ==
  /\ wf.pc = "loop"
  /\ ~LoopGuard(wf.prepared_remaining_oos)
  /\ wf' = [wf EXCEPT
              !.pc = "returned",
              !.result = IF wf.all_step_results = <<>>
                         THEN ReturnNone("No walk-forward steps were completed.")
                         ELSE [value |-> "results", message |-> ""]]
  /\ UNCHANGED WfOthers

NextWalkForward == WfStart \/ WfStepBegin \/ WfRun \/ WfAnchor \/ WfReturn

SpecWalkForward == InitWalkForward /\ [][NextWalkForward]_vars

\* ------------------------------------------------------- walk-forward step
\* SpecStep: the metrics of one walk-forward step from the stats of its
\* training run and of its test run.

SharpeValues == {-200, -5, 0, 5, 100, 200}
TradeCounts == {0, 3}
StatsSets ==
  {EmptyStats} \cup
  {[present |-> TRUE, Total_Trades |-> n, Sharpe_Ratio |-> x] :
     n \in TradeCounts, x \in SharpeValues}

InitStep ==
  /\ tm = NewTradeManager
  /\ LedgerIdle /\ SimIdle /\ SigIdle /\ ColIdle /\ WfIdle /\ McIdle
  /\ arg \in {[f |-> "step_metrics", train_stats |-> a, oos_stats |-> b] :
               a \in StatsSets, b \in StatsSets}
  /\ result = NoArg

CallStepMetrics ==
  /\ arg.f = "step_metrics"
  /\ result = NoArg
  /\ result' = step_metrics(arg.train_stats, arg.oos_stats)
  /\ UNCHANGED <<tm, ledgerVars, simVars, sigVars, colVars, arg, wfVars, mcVars>>

NextStep == CallStepMetrics

SpecStep == InitStep /\ [][NextStep]_vars

\* -------------------------------------------------- Monte Carlo p-values
\* SpecPValue: the p-value of one metric of one parameter set, from the
\* observed value and the values over the bootstrap samples. A metric that a
\* run's stats lack is np.nan (momentum on an empty table returns {}).

\* bootstrap samples at most
MaxSims == 2
MetricValues == {NaN, NegInfinity, Infinity, Number(0), Number(1), Number(2)}

InitPValue ==
  /\ tm = NewTradeManager
  /\ LedgerIdle /\ SimIdle /\ SigIdle /\ ColIdle /\ WfIdle /\ McIdle
  /\ \E n \in 1..MaxSims :
       arg \in {[f |-> "p_value", internal_key |-> key, observed_value |-> x,
                 sim_values |-> sims] :
                key \in METRIC_KEYS, x \in MetricValues,
                sims \in [1..n -> MetricValues]}
  /\ result = NoArg

CallPValue ==
  /\ arg.f = "p_value"
  /\ result = NoArg
  /\ result' = p_value(arg.internal_key, arg.observed_value, arg.sim_values)
  /\ UNCHANGED <<tm, ledgerVars, simVars, sigVars, colVars, arg, wfVars, mcVars>>

NextPValue == CallPValue

SpecPValue == InitPValue /\ [][NextPValue]_vars

\* ------------------------------------------------- Monte Carlo best set
\* SpecBestSet: the parameter set that monte_carlo reports as best and the
\* one main selects, from the p-values of the candidate sets.

\* candidate parameter sets at most
MaxSets == 3
PValues == {NaN, Ratio(0, 2), Ratio(1, 2), Ratio(2, 2)}
PValueDicts ==
  {[profit_factor |-> a, expectancy_pct |-> b, avg_win_loss_ratio |-> a,
    max_drawdown |-> b] : a \in PValues, b \in PValues}

InitBestSet ==
  /\ tm = NewTradeManager
  /\ LedgerIdle /\ SimIdle /\ SigIdle /\ ColIdle /\ WfIdle /\ McIdle
  /\ \E n \in 1..MaxSets :
       arg \in {[f |-> "best_set", mc_results |-> ps] : ps \in [1..n -> PValueDicts]}
  /\ result = NoArg

CallBestSet ==
  /\ arg.f = "best_set"
  /\ result = NoArg
  /\ result' = [best_set_idx |-> best_set_idx(arg.mc_results),
                best_idx_loc |-> best_idx_loc(arg.mc_results)]
  /\ UNCHANGED <<tm, ledgerVars, simVars, sigVars, colVars, arg, wfVars, mcVars>>

NextBestSet == CallBestSet

SpecBestSet == InitBestSet /\ [][NextBestSet]_vars

\* ------------------------------------------------ entries and trailing stops
\* SpecTrailing: process_entry and trailing_stops calls in any order, the
\* arguments of the last trailing_stops call being kept in `arg`.

TrailingAt ==
  \E open \in Opens, atr \in ATRs, adx \in ADXs :
    LET r == trailing_stops(tm, open, now + 1, atr, adx)
    IN /\ ncalls < MaxCalls
       /\ ncalls' = ncalls + 1
       /\ now' = now + 1
       /\ tm' = r.tm
       /\ call' = [Called("trailing_stops") EXCEPT !.flag = r.ret]
       /\ arg' = [f |-> "trailing_stops", current_price |-> open,
                  current_atr |-> atr, adx_value |-> adx]
       /\ result' = [f |-> "trailing_stops", ret |-> r.ret]
       /\ UNCHANGED <<simVars, sigVars, colVars, wfVars, mcVars>>

NextTrailing == Entry \/ TrailingAt

SpecTrailing == Init /\ [][NextTrailing]_vars

\* ------------------------------------------------ entries and health checks
\* SpecHealth: process_entry and position_health calls in any order, the
\* arguments of the last position_health call being kept in `arg`.

\* max_position_duration values (days) of the health calls
HealthDurations == {1, MAX_POSITION_DURATION}

HealthAt ==
  \E open \in Opens, atr \in ATRs, score \in Scores, maxdur \in HealthDurations :
    /\ ncalls < MaxCalls
    /\ ncalls' = ncalls + 1
    /\ now' = now + 1
    /\ tm' = position_health(tm, open, atr, now + 1, score, maxdur)
    /\ call' = Called("position_health")
    /\ arg' = [f |-> "position_health", current_price |-> open,
               current_atr |-> atr, current_date |-> now + 1,
               current_score |-> score, max_position_duration |-> maxdur]
    /\ UNCHANGED <<result, simVars, sigVars, colVars, wfVars, mcVars>>

NextHealth == Entry \/ HealthAt

SpecHealth == Init /\ [][NextHealth]_vars

\* ------------------------------------------------------ entries by ADX
\* SpecTakeProfit: process_entry calls over the ADX regimes, the entry
\* parameters of the last call being kept in `arg`.

EntryAdxs == {15, 40, 41, 50, 100}

EntryWith ==
  \E open \in Opens, atr \in ATRs, adx \in EntryAdxs :
    LET r == process_entry(tm, now + 1, BuyPrice(open), tm.portfolio_value,
                           DEFAULT_LONG_RISK, atr, adx)
    IN /\ ncalls < MaxCalls
       /\ ncalls' = ncalls + 1
       /\ now' = now + 1
       /\ tm' = r.tm
       /\ call' = [Called("process_entry") EXCEPT !.flag = r.ret, !.why = r.why,
                     !.exceeds = r.exceeds,
                     !.portfolio_value = tm.portfolio_value]
       /\ arg' = [f |-> "process_entry", price |-> BuyPrice(open),
                  atr |-> atr, adx |-> adx]
       /\ UNCHANGED <<result, simVars, sigVars, colVars, wfVars, mcVars>>

NextTakeProfit == EntryWith

SpecTakeProfit == Init /\ [][NextTakeProfit]_vars

\* ------------------------------------------------- the ATR multipliers
\* SpecMultipliers: for one ADX value, the ATR multiplier that trailing_stops
\* selects and the one that process_entry selects.

\* ADX is an index between 0 and 100
AdxValues == 0..100

InitMultipliers ==
  /\ tm = NewTradeManager
  /\ LedgerIdle /\ SimIdle /\ SigIdle /\ ColIdle /\ WfIdle /\ McIdle
  /\ arg \in {[f |-> "atr_multiplier", adx |-> adx] : adx \in AdxValues}
  /\ result = NoArg

CallMultipliers ==
  /\ arg.f = "atr_multiplier"
  /\ result = NoArg
  /\ result' = [f |-> "atr_multiplier",
                base_multiplier |-> TrailAtrMultiplier(arg.adx),
                atr_multiplier |-> EntryAtrMultiplier(arg.adx)]
  /\ UNCHANGED <<tm, ledgerVars, simVars, sigVars, colVars, arg, wfVars, mcVars>>

NextMultipliers == CallMultipliers

SpecMultipliers == InitMultipliers /\ [][NextMultipliers]_vars

\* ------------------------------------------------- runs over a shared table
\* SpecRuns: two runs of momentum(), with different parameter sets, over the
\* same prepared table, their statements interleaved in any order. Each run
\* has its own signals_df, trade_manager and equity_curve; signals() assigns
\* the derived columns to the table the runs share.

RunIds == {"first", "second"}
RunRows == {Flat, Strong, Overbought, Drop}
RunTables == {Warmup \o suffix : suffix \in [1..3 -> RunRows]}
\* the parameter set of each run: they differ in adx_threshold
RunParams ==
  [r \in RunIds |->
     [long_risk |-> DEFAULT_LONG_RISK, max_positions |-> 2,
      adx_threshold |-> IF r = "first" THEN ADX_THRESHOLD_DEFAULT ELSE 45,
      max_position_duration |-> MAX_POSITION_DURATION]]

\* a run's position: the statements of signals() that assign a derived column
\* (1..Len(DERIVED_COLS)), then the rest of signals(), the loop, the return
AtSignals == Len(DERIVED_COLS) + 1
AtLoop == AtSignals + 1
AtReturn == AtLoop + 1

InitRuns ==
  /\ tm = NewTradeManager
  /\ LedgerIdle /\ SimIdle /\ SigIdle /\ ColIdle /\ FunIdle /\ WfIdle
  /\ \E rows \in RunTables :
       runs = [ pc |-> "running",
                rows |-> rows,
                cols |-> NoDerived,
                run |-> [r \in RunIds |->
                          [ params |-> RunParams[r],
                            at |-> 1,
                            signals_df |-> <<>>,
                            trade_manager |-> NewTradeManager,
                            equity_curve |-> [k \in 1..Len(rows) |-> Number(INITIAL_CAPITAL)],
                            i |-> 1 ]] ]

RunOthers == <<tm, ledgerVars, simVars, sigVars, colVars, funVars, wfVars>>

\* df['price_roc'] = ..., ..., df['vix_factor_ranked'] = ...: run r assigns
\* its next derived column to the shared table
AssignColumn(r) ==
  /\ runs.run[r].at <= Len(DERIVED_COLS)
  /\ LET c == DERIVED_COLS[runs.run[r].at]
     IN runs' = [runs EXCEPT !.cols[c] = Assigned(runs.rows, runs.cols, c),
                             !.run[r].at = @ + 1]
  /\ UNCHANGED RunOthers

\* raw_score = ..., the signal columns, return signals_df; then momentum's
\* trade_manager = TradeManager(...), equity_curve = ...
ComputeSignals(r) ==
  /\ runs.run[r].at = AtSignals
  /\ runs' = [runs EXCEPT
       !.run[r].signals_df =
          SignalsFrom(runs.rows, runs.cols, runs.run[r].params.adx_threshold),
       !.run[r].at = AtLoop]
  /\ UNCHANGED RunOthers

\* a run's locals after one more pass of the loop
WithBar(me, body, last) ==
  [me EXCEPT !.trade_manager = body.tm,
             !.equity_curve[me.i + 1] = body.equity,
             !.i = me.i + 1,
             !.at = IF me.i + 1 < last THEN AtLoop ELSE AtReturn]
AfterBar(rows, me) ==
  WithBar(me, LoopBody(me.trade_manager, rows, me.signals_df, me.params, me.i),
          Len(rows))

\* for i in range(1, len(df_with_indicators)): one pass of run r
RunBar(r) ==
  /\ runs.run[r].at = AtLoop
  /\ runs' = [runs EXCEPT !.run[r] = AfterBar(runs.rows, @)]
  /\ UNCHANGED RunOthers

NextRuns == \E r \in RunIds : AssignColumn(r) \/ ComputeSignals(r) \/ RunBar(r)

SpecRuns == InitRuns /\ [][NextRuns]_vars

\* ------------------------------------------------------ tables lacking columns
\* SpecColumns: momentum() from its first line, over a table that has all
\* the columns or lacks one of them.

AllColumns == REQUIRED_INDICATOR_COLS \cup OTHER_READ_COLS
ColumnSets ==
  {AllColumns} \cup {AllColumns \ {c} : c \in {"RSI", "weekly_uptrend", "Open", "VIX"}}

InitColumns ==
  /\ tm = NewTradeManager
  /\ LedgerIdle /\ SigIdle /\ FunIdle /\ WfIdle /\ McIdle
  /\ df \in Tables
  /\ params \in ParamSets
  /\ columns \in ColumnSets
  /\ signals_df = <<>>
  /\ signal_columns = {}
  /\ outcome = "running"
  /\ equity_curve = <<>>
  /\ i = 0
  /\ pc = "start"
  /\ signal_data = NoSignal
  /\ any_trailing_stop_hit = FALSE
  /\ in_exit_block = FALSE
  /\ bar_calls = {}

\* signals_df = signals(df_with_indicators, adx_threshold=adx_threshold)
CallSignals ==
  /\ pc = "start"
  /\ LET r == SignalsOutcome(columns)
     IN IF r.raised
        THEN /\ outcome' = "KeyError"
             /\ pc' = "raised"
             /\ UNCHANGED <<signals_df, signal_columns>>
        ELSE /\ signal_columns' = r.columns
             /\ signals_df' = IF r.columns = {} THEN <<>>
                              ELSE signals(df, params.adx_threshold)
             /\ pc' = "setup"
             /\ UNCHANGED outcome
  /\ UNCHANGED <<tm, df, params, i, signal_data, any_trailing_stop_hit,
                 in_exit_block, bar_calls, equity_curve, columns,
                 ledgerVars, sigVars, funVars, wfVars, mcVars>>

\* trade_manager, equity_curve, prices = df['Open'].values, atrs, adxs, and
\* the start of the loop
SetUp ==
  /\ pc = "setup"
  /\ tm' = NewTradeManager
  /\ equity_curve' = [k \in 1..Len(df) |-> Number(INITIAL_CAPITAL)]
  /\ IF {"Open", "ATR", "ADX"} \subseteq columns
     THEN /\ i' = 1
          /\ pc' = IF 1 < Len(df) THEN "signals" ELSE "done"
          /\ UNCHANGED outcome
     ELSE /\ outcome' = "KeyError"
          /\ pc' = "raised"
          /\ UNCHANGED i
  /\ UNCHANGED <<df, signals_df, params, signal_data, any_trailing_stop_hit,
                 in_exit_block, bar_calls, columns, signal_columns,
                 ledgerVars, sigVars, funVars, wfVars, mcVars>>

\* process_signals on a signals_df without columns:
\* signals_df['buy_signal'] raises KeyError
ProcessSignalsRaises ==
  /\ pc = "signals"
  /\ i < Len(df)
  /\ ~(SIGNAL_COLS \subseteq signal_columns)
  /\ outcome' = "KeyError"
  /\ pc' = "raised"
  /\ UNCHANGED <<tm, df, signals_df, params, i, signal_data,
                 any_trailing_stop_hit, in_exit_block, bar_calls, equity_curve,
                 columns, signal_columns, ledgerVars, sigVars, funVars, wfVars, mcVars>>

NextColumns == CallSignals \/ SetUp \/ ProcessSignalsRaises \/ NextSim

SpecColumns == InitColumns /\ [][NextColumns]_vars

\* ============================================================ signal tables
\* SpecSignals: two input tables grown row by row; `agree` counts the rows
\* appended to both, so the tables are equal on rows 1..agree.

\* rows of each table at most
MaxRows == 3
\* the bars the tables are made of
SignalRows == {Flat, Strong, Overbought, Drop}

InitSignals ==
  /\ tm = NewTradeManager
  /\ LedgerIdle /\ SimIdle /\ ColIdle /\ FunIdle /\ WfIdle /\ McIdle
  /\ tblA = <<>> /\ tblB = <<>> /\ agree = 0

\* the same bar arrives in both tables
AppendBoth ==
  \E r \in SignalRows :
    /\ Len(tblA) = agree /\ Len(tblB) = agree
    /\ agree < MaxRows
    /\ tblA' = Append(tblA, r)
    /\ tblB' = Append(tblB, r)
    /\ agree' = agree + 1
    /\ UNCHANGED <<tm, ledgerVars, simVars, colVars, funVars, wfVars, mcVars>>

\* a later bar arrives in one table only
AppendA ==
  \E r \in SignalRows :
    /\ Len(tblA) < MaxRows
    /\ tblA' = Append(tblA, r)
    /\ UNCHANGED <<tblB, agree, tm, ledgerVars, simVars, colVars, funVars, wfVars, mcVars>>

AppendB ==
  \E r \in SignalRows :
    /\ Len(tblB) < MaxRows
    /\ tblB' = Append(tblB, r)
    /\ UNCHANGED <<tblA, agree, tm, ledgerVars, simVars, colVars, funVars, wfVars, mcVars>>

NextSignals == AppendBoth \/ AppendA \/ AppendB

SpecSignals == InitSignals /\ [][NextSignals]_vars

\* ---------------------------------------------------- the exit-signal tiers
\* SpecTiers: the signal records of rows by RSI and momentum score, taken one
\* after the other, each through the exit-signal step of the loop; `result`
\* collects the reasons of the process_exits calls the step made.

\* momentum scores 0, 0.5, 1, ..., 100
TierScores == [n \in 1..201 |-> [num |-> n - 1, den |-> 2]]
\* RSI below 70, between 70 and 80, above 80
TierRsis == <<50, 75, 85>>

\* the k-th row and score
TierRow(k) ==
  Bar(100 * Dollar, 2 * Dollar, 30, TierRsis[(k \div Len(TierScores)) + 1], 20,
      FALSE, 0, 3)
TierScore(k) == TierScores[(k % Len(TierScores)) + 1]

\* if signal_data['immediate_exit']: ... elif signal_data['exit_signal']: ...
ExitStepReasons(sd) ==
  IF sd.immediate_exit \/ sd.exit_signal THEN {SignalExitReason(sd)} ELSE {}

InitTiers ==
  /\ tm = NewTradeManager
  /\ LedgerIdle /\ SimIdle /\ SigIdle /\ ColIdle /\ WfIdle /\ McIdle
  /\ arg = [f |-> "exit_step", k |-> 0]
  /\ result = [reasons |-> {}]

NextRecord ==
  /\ arg.f = "exit_step"
  /\ arg.k < Len(TierScores) * Len(TierRsis)
  /\ result' = [reasons |-> result.reasons \cup
                   ExitStepReasons(SignalOf(TierRow(arg.k), TierScore(arg.k),
                                            ADX_THRESHOLD_DEFAULT))]
  /\ arg' = [arg EXCEPT !.k = @ + 1]
  /\ UNCHANGED <<tm, ledgerVars, simVars, sigVars, colVars, wfVars, mcVars>>

NextTiers == NextRecord

SpecTiers == InitTiers /\ [][NextTiers]_vars /\ WF_vars(NextTiers)

\* the open position with a given id, in a ledger
RowsOf(T) == {T.active_trades[k] : k \in 1..Len(T.active_trades)}

\* ------------------------------------------------------------------ claims
\* C1: in every reachable ledger state allocated_capital equals the sum over
\* the open positions of remaining_shares * entry_price (0 when none is open).
AllocatedMatchesOpenPositions ==
  tm.allocated_capital = Exposure(tm.active_trades)

\* C2: in every reachable ledger state position_count equals the number of
\* rows of active_trades, for any Trim in [0, 1].
CountMatchesRows ==
  tm.position_count = Len(tm.active_trades)

\* C3: every open position has 0 < remaining_shares <= share_amount (so none
\* with 0 shares stays in the ledger), and remaining_shares of a position
\* never increases from one state to the next.
RemainingSharesBounded ==
  /\ [](\A p \in RowsOf(tm) :
          0 < p.remaining_shares /\ p.remaining_shares <= p.share_amount)
  /\ [][\A p \in RowsOf(tm), q \in RowsOf(tm') :
          p.position_id = q.position_id
            => q.remaining_shares <= p.remaining_shares]_vars

\* a position reduced by a partial exit is still open
PartlyExitedPositionOpen ==
  /\ call.op = "process_exits"
  /\ \E p \in RowsOf(tm) : p.remaining_shares < p.share_amount

\* C4: for every position, every trailing_stops update leaves stop_loss
\* greater than or equal to its previous value.
StopNeverMovesBackward ==
  [][\A p \in RowsOf(tm), q \in RowsOf(tm') :
       p.position_id = q.position_id => q.stop_loss >= p.stop_loss]_vars

\* a trailing update has raised a stop above the entry price without a hit
StopRaisedByTrailing ==
  /\ call.op = "trailing_stops"
  /\ call.flag = FALSE
  /\ \E p \in RowsOf(tm) : p.stop_loss > p.entry_price

\* C8: in one process_exits call at most one closed-trade record is written
\* per position (trim exit, take-profit, stop-loss: the first match only).
OneRecordPerPositionPerExitCall ==
  call.op = "process_exits" =>
    \A a, b \in (call.log_before + 1)..Len(tm.trade_log) :
      a # b => tm.trade_log[a].position_id # tm.trade_log[b].position_id

\* C9: process_exits with Trim = 0 on a ledger with no open position returns
\* 0 and leaves the ledger unchanged; so does a full exit that immediately
\* follows a full exit.
FullExitOnClosedIsNoOp ==
  [][(/\ call'.op = "process_exits"
      /\ call'.Trim = 0
      /\ \/ tm.active_trades = <<>>
         \/ call.op = "process_exits" /\ call.Trim = 0)
       => call'.ret = 0 /\ tm' = tm]_vars

\* a full exit right after a full exit that closed positions
SecondFullExitMade ==
  /\ call.op = "process_exits" /\ call.Trim = 0
  /\ call.prev_op = "process_exits" /\ call.prev_Trim = 0
  /\ call.n_before = 0
  /\ tm.trade_log # <<>>

\* C10 as stated: whenever existing exposure plus the risk-sized notional
\* would exceed 95 % of the portfolio value, process_entry returns failure
\* and opens no position.
EntryRejectedWhenOverExposure ==
  (call.op = "process_entry" /\ call.exceeds)
    => call.flag = FALSE /\ Len(tm.active_trades) = call.n_before

\* C10 amended: when it would exceed 95 %, process_entry either returns
\* failure and opens no position, or accepts a position whose share count
\* was cut so that the total exposure stays within 95 %.
EntryCappedWhenOverExposure ==
  (call.op = "process_entry" /\ call.exceeds)
    => \/ call.flag = FALSE /\ Len(tm.active_trades) = call.n_before
       \/ /\ call.flag = TRUE
          /\ Len(tm.active_trades) = call.n_before + 1
          /\ 20 * Exposure(tm.active_trades) <= 19 * call.portfolio_value

\* an entry over the cap was accepted, cut down, beside an open position
CappedEntryAccepted ==
  /\ call.op = "process_entry" /\ call.exceeds /\ call.flag = TRUE
  /\ call.n_before >= 1

\* C5: on a bar where the trailing-stop check reports a hit, neither the
\* immediate-exit / exit-signal processing nor the position-health
\* assessment is executed on that bar.
NoExitProcessingAfterStopHit ==
  (any_trailing_stop_hit /\ \E c \in bar_calls : c.op = "trailing_stops")
    => \A c \in bar_calls : c.op \notin {"signal_exits", "position_health"}

\* a bar on which a stop was hit while the previous bar signalled an exit
StopHitOnSignalledBar ==
  /\ pc = "track"
  /\ any_trailing_stop_hit
  /\ \E c \in bar_calls : c.op = "trailing_stops"
  /\ signal_data.immediate_exit \/ signal_data.exit_signal

\* two scores are the same number
SameScore(a, b) == a.num * b.den = b.num * a.den

\* C6: every decision on bar i >= 1 uses the flags, momentum score, ATR and
\* ADX of bar i-1 and executes at bar i's Open; entries are priced at
\* Open * 1.001 and every exit at Open * 0.999, slippage applied once.
DecisionsUsePreviousBar ==
  /\ pc \in {"trailing", "exits", "health", "entry", "track"} =>
       /\ signal_data.buy_signal = At(signals_df, i - 1).buy_signal
       /\ signal_data.exit_signal = At(signals_df, i - 1).exit_signal
       /\ signal_data.immediate_exit = At(signals_df, i - 1).immediate_exit
       /\ signal_data.momentum_score = At(signals_df, i - 1).momentum_score
       /\ signal_data.previous_day_atr = At(df, i - 1).ATR
       /\ signal_data.previous_day_adx = At(df, i - 1).ADX
       /\ \A c \in bar_calls :
            /\ c.date = i
            /\ c.score = At(signals_df, i - 1).momentum_score
            /\ c.op = "process_entry" =>
                 /\ At(signals_df, i - 1).buy_signal
                 /\ c.price = (At(df, i).Open * 1001) \div 1000
                 /\ c.atr = At(df, i - 1).ATR /\ c.adx = At(df, i - 1).ADX
            /\ c.op = "trailing_stops" =>
                 /\ c.price = At(df, i).Open
                 /\ c.atr = At(df, i - 1).ATR /\ c.adx = At(df, i - 1).ADX
            /\ c.op = "position_health" =>
                 c.price = At(df, i).Open /\ c.atr = At(df, i - 1).ATR
            /\ c.op = "signal_exits" =>
                 /\ c.price = At(df, i).Open
                 /\ \/ At(signals_df, i - 1).immediate_exit
                    \/ At(signals_df, i - 1).exit_signal
  /\ \A k \in 1..Len(tm.trade_log) :
       LET rec == tm.trade_log[k]
       IN /\ rec.exit_price = (At(df, rec.exit_date).Open * 999) \div 1000
          /\ rec.entry_price = (At(df, rec.entry_date).Open * 1001) \div 1000
  /\ \A p \in RowsOf(tm) :
       /\ p.entry_price = (At(df, p.entry_date).Open * 1001) \div 1000
       /\ p.take_profit = TakeProfit(p.entry_price, At(df, p.entry_date - 1).ATR,
                                     At(df, p.entry_date - 1).ADX)

\* a position entered on one bar has been closed by a signal exit on a later
\* bar whose own row differs from the row before it
SignalExitAfterEntry ==
  /\ pc = "track"
  /\ tm.trade_log # <<>>
  /\ \E c \in bar_calls : c.op = "signal_exits"
  /\ At(signals_df, i) # At(signals_df, i - 1)

\* C7: the signal record of a date depends only on that date's bar and the
\* earlier ones: two tables that agree on all bars up to t give the same
\* buy_signal, exit_signal, immediate_exit and momentum_score at t.
SignalsIgnoreLaterBars ==
  \A t \in 1..agree :
    LET a == SignalRow(tblA, t, ADX_THRESHOLD_DEFAULT)
        b == SignalRow(tblB, t, ADX_THRESHOLD_DEFAULT)
    IN /\ a.buy_signal = b.buy_signal
       /\ a.exit_signal = b.exit_signal
       /\ a.immediate_exit = b.immediate_exit
       /\ SameScore(a.momentum_score, b.momentum_score)

\* C11: whenever process_entry returns False the ledger is unchanged: cash,
\* allocated_capital, position_count, the position-id counter and the open
\* positions are as before the call.
RejectedEntryLeavesLedger ==
  [][(call'.op = "process_entry" /\ call'.flag = FALSE) => tm' = tm]_vars

\* an entry cut down to the last available exposure was rejected as below
\* the minimum position value, beside an open position
EntryRejectedBesideOpenPosition ==
  /\ call.op = "process_entry" /\ call.flag = FALSE
  /\ call.why = "minimum"
  /\ call.n_before >= 1
  /\ tm.allocated_capital > 0

\* C12: when the input table lacks a required column (a required indicator
\* column, or VIX), signals() returns an empty / default signal set without
\* raising, and momentum() over that table completes without raising and
\* yields no trades.
MissingColumnRunCompletes ==
  (columns # {} /\ columns # AllColumns) =>
     /\ outcome # "KeyError"
     /\ outcome = "returned" => tm.trade_log = <<>>

\* the closed-trade records with a positive PnL, and the others
RECURSIVE PnlSum(_, _)
PnlSum(log, positive) ==
  IF log = <<>> THEN 0
  ELSE (IF (Head(log).pnl > 0) = positive THEN Head(log).pnl ELSE 0)
         + PnlSum(Tail(log), positive)

\* C13: the profit factor is exactly 1.0 when gross profit and gross loss
\* are both 0 (the no-trade case included), +infinity if and only if gross
\* loss is 0 and gross profit > 0, and otherwise |gross profit / gross loss|.
ProfitFactorCases ==
  LET gross_profit == PnlSum(tm.trade_log, TRUE)
      gross_loss == PnlSum(tm.trade_log, FALSE)
      pf == profit_factor(tm.wins, tm.losses)
  IN /\ (gross_profit = 0 /\ gross_loss = 0) => pf = Ratio(1, 1)
     /\ (pf = Infinity) <=> (gross_loss = 0 /\ gross_profit > 0)
     /\ gross_loss # 0 => pf = Ratio(Abs(gross_profit), Abs(gross_loss))

\* a ledger with winning and losing closed trades
WinsAndLossesLogged ==
  /\ GrossProfit(tm.wins) > 0
  /\ GrossLoss(tm.losses) < 0

\* n^2 times the variance of a series: 0 exactly when its standard deviation is
SquaredSpread(xs) ==
  Len(xs) * SumSeq([k \in 1..Len(xs) |-> xs[k] * xs[k]]) - SumSeq(xs) * SumSeq(xs)

Values(xs) == {xs[k] : k \in 1..Len(xs)}

FlatSeries == \A t \in 1..Len(df) : df[t].Close = df[1].Close

\* C15: on a flat price series the simulation opens no position, logs no
\* closed trade, and the equity curve is the initial capital at every date.
FlatSeriesNeverTrades ==
  (pc # "idle" /\ FlatSeries) =>
    /\ tm.active_trades = <<>>
    /\ tm.position_counter = 0
    /\ tm.trade_log = <<>>
    /\ \A k \in 1..Len(equity_curve) : equity_curve[k] = Number(INITIAL_CAPITAL)

\* a flat run has returned, and some row had ADX, VIX and the momentum score
\* all in favour of a buy
FlatRunWithFavourableRow ==
  /\ pc = "done" /\ outcome = "returned" /\ FlatSeries
  /\ \E t \in 1..(Len(df) - 1) :
       /\ df[t].ADX > params.adx_threshold
       /\ df[t].VIX < VIX_ENTRY_THRESHOLD
       /\ ScoreAbove(signals_df[t].momentum_score, 57)

\* the series of the run rises on every row, with ADX above the threshold
\* and VIX below the entry ceiling on every row
RisingSeries ==
  /\ \A t \in 2..Len(df) : df[t].Close > df[t - 1].Close
  /\ \A t \in 1..Len(df) :
       df[t].ADX > params.adx_threshold /\ df[t].VIX < VIX_ENTRY_THRESHOLD

\* C16: on a rising series with ADX above the threshold and VIX below the
\* ceiling the run makes exactly one accepted entry, that position is exited
\* with reason Take Profit or Max Duration, and no record has a stop-loss
\* reason.
RisingSeriesEntersOnce ==
  (pc # "idle" /\ RisingSeries) =>
    /\ tm.position_counter <= 1
    /\ \A k \in 1..Len(tm.trade_log) :
         tm.trade_log[k].reason \in {"Take Profit", "Max Duration"}
    /\ outcome = "returned" => tm.position_counter = 1

\* C17: with block_size = 1 every position of a sample holds the row at the
\* start index drawn for that position, and the step to the next row
\* ((t + 1) % n) is never taken.
BlockSizeOneIsIid ==
  (arg.f = "stationary_bootstrap" /\ result # NoArg /\ arg.block_size = 1) =>
    /\ result.sample = [k \in 1..Len(arg.data) |-> arg.data[arg.starts[k] + 1]]
    /\ result.stepped = {}

\* a sample drawn with block_size = 1 whose second start index is not the
\* row after the first and whose second uniform draw is the largest
IidSampleDrawn ==
  /\ arg.f = "stationary_bootstrap" /\ result # NoArg /\ arg.block_size = 1
  /\ Len(arg.data) >= 2
  /\ arg.starts[2] # (arg.starts[1] + 1) % Len(arg.data)
  /\ arg.draws[2] = [num |-> 3, den |-> 4]
  /\ result.indices[2] = arg.starts[2]

\* C18: with out-of-sample data shorter than one OOS window the driver makes
\* no step (no optimizer call, no simulation run, no step record) and
\* returns None, with the 'no steps completed' message when the data passed
\* preparation.
ShortOosGivesNoSteps ==
  (wf.pc # "idle" /\ Len(wf.full_oos_data_raw) < OOS_WINDOW) =>
    /\ wf.pc \in {"start", "loop", "returned"}
    /\ wf.all_step_results = <<>>
    /\ wf.optimize_calls = 0
    /\ wf.momentum_calls = 0
    /\ wf.pc = "returned" =>
         /\ wf.result.value = "None"
         /\ (wf.passes_checks /\ wf.initial_is_data_raw # <<>>) =>
              wf.result.message = "No walk-forward steps were completed."

\* the driver has returned from the loop with out-of-sample data one row
\* short of a window
ShortOosReturned ==
  /\ wf.pc = "returned"
  /\ Len(wf.full_oos_data_raw) = OOS_WINDOW - 1
  /\ wf.initial_is_data_raw # <<>>
  /\ wf.result = ReturnNone("No walk-forward steps were completed.")

\* the rows of a table are consecutive, in date order
Consecutive(rows) == \A k \in 2..Len(rows) : rows[k] = rows[k - 1] + 1

\* C19: the training window is anchored. Its first row never changes and its
\* length never decreases; anchoring extends it by exactly the step's test
\* window; in each step the test window is a fixed-size run of rows that
\* starts right after the end of the training window; the test windows of
\* consecutive steps are adjacent.
TrainingWindowAnchored ==
  /\ [](wf.pc \in {"run", "anchor"} =>
         /\ Len(wf.prepared_oos_chunk) = OOS_WINDOW
         /\ Consecutive(wf.prepared_oos_chunk)
         /\ wf.prepared_oos_chunk[1] =
              wf.prepared_current_train[Len(wf.prepared_current_train)] + 1)
  /\ [](wf.pc # "idle" =>
         \A k \in 1..Len(wf.all_step_results) :
           LET rec == wf.all_step_results[k]
           IN /\ rec.test_days = OOS_WINDOW
              /\ rec.test_start_date = rec.train_end_date + 1
              /\ rec.train_start_date = wf.all_step_results[1].train_start_date
              /\ k > 1 =>
                   LET prev == wf.all_step_results[k - 1]
                   IN /\ rec.test_start_date = prev.test_end_date + 1
                      /\ rec.train_days = prev.train_days + prev.test_days
                      /\ rec.train_end_date = prev.test_end_date)
  /\ [][wf.pc \in {"loop", "run", "anchor"} =>
         /\ Len(wf'.prepared_current_train) >= Len(wf.prepared_current_train)
         /\ wf'.prepared_current_train[1] = wf.prepared_current_train[1]
         /\ wf.pc = "anchor" =>
              /\ Len(wf'.prepared_current_train) =
                   Len(wf.prepared_current_train) + Len(wf.prepared_oos_chunk)
              /\ IlocLast(wf'.prepared_current_train, OOS_WINDOW) =
                   wf.prepared_oos_chunk]_vars

\* a third step is under way after a re-optimization
ThirdStepAfterAnchoring ==
  /\ wf.pc = "anchor"
  /\ Len(wf.all_step_results) >= 3
  /\ wf.optimize_calls >= 1

\* the out-of-sample rows that a recorded step has tested
TestedRows ==
  UNION { wf.all_step_results[k].test_start_date ..
            wf.all_step_results[k].test_end_date :
          k \in 1..Len(wf.all_step_results) }

\* C20: the training window of the first step is exactly the in-sample
\* rows, and an out-of-sample row is in a training window only after it has
\* been in a test window.
FirstTrainingWindowIsInSample ==
  wf.pc = "run" =>
    /\ wf.step_number = 1 => wf.prepared_current_train = wf.initial_is_data_raw
    /\ \A k \in 1..Len(wf.prepared_current_train) :
         wf.prepared_current_train[k] > Len(wf.initial_is_data_raw) =>
           wf.prepared_current_train[k] \in TestedRows

\* C21: when both runs of a step made trades, the decay ratio is
\* 1 - |OOS Sharpe| / max(|train Sharpe|, 0.1) if both Sharpe ratios are
\* non-negative or both negative, and 1.5 if one is negative and the other
\* is not.
DecayRatioBySign ==
  (arg.f = "step_metrics" /\ result # NoArg
     /\ result.train_trades > 0 /\ result.test_trades > 0) =>
    LET train == arg.train_stats.Sharpe_Ratio
        oos == arg.oos_stats.Sharpe_Ratio
        floor == IF Abs(train) > 10 THEN Abs(train) ELSE 10
    IN IF (train < 0) = (oos < 0)
       THEN /\ result.decay_ratio.kind = "ratio"
            /\ result.decay_ratio.num * floor
                 = (floor - Abs(oos)) * result.decay_ratio.den
       ELSE /\ result.decay_ratio.kind = "ratio"
            /\ 2 * result.decay_ratio.num = 3 * result.decay_ratio.den

\* a step whose training Sharpe is 0 and whose test Sharpe is positive, both
\* runs having traded
DecayOfZeroTrainSharpe ==
  /\ arg.f = "step_metrics" /\ result # NoArg
  /\ result.train_trades > 0 /\ result.test_trades > 0
  /\ result.train_sharpe = 0 /\ result.test_sharpe > 0

\* C22: a step with no trade in its training or its test run is recorded
\* all the same, flagged invalid, with Sharpe 0.0 on the side without
\* trades, and its decay ratio is a number, never NaN.
ZeroTradeStepHasDecayRatio ==
  wf.pc # "idle" =>
    /\ wf.pc = "anchor" => Len(wf.all_step_results) = wf.step_number
    /\ \A k \in 1..Len(wf.all_step_results) :
         LET rec == wf.all_step_results[k]
         IN (rec.train_trades = 0 \/ rec.test_trades = 0) =>
              /\ ~rec.valid_comparison
              /\ rec.train_trades = 0 => ~rec.valid_train /\ rec.train_sharpe = 0
              /\ rec.test_trades = 0 => ~rec.valid_test /\ rec.test_sharpe = 0
              /\ rec.decay_ratio # NaN

\* C23: when a re-optimization gives None or an empty list (no valid trial,
\* or the study failed), the run goes on with the step, and that step and
\* the later ones use the parameters that were active before the attempt.
FailedOptimizationKeepsParameters ==
  /\ [][(wf.pc = "loop" /\ wf'.pc # "returned" /\ wf'.optimized
          /\ wf'.study \in {"no valid trial", "study error"}) =>
         /\ wf'.pc = "run"
         /\ wf'.result = NoResult
         /\ wf'.active_parameters = wf.active_parameters]_vars
  /\ [][(wf.pc \in {"run", "anchor"}) =>
         wf'.active_parameters = wf.active_parameters]_vars
  /\ [](wf.pc = "anchor" =>
         wf.all_step_results[Len(wf.all_step_results)].parameters_used_snapshot
           = wf.active_parameters)

\* a step recorded after a first re-optimization gave parameters and a
\* second one gave none: it uses the parameters of the first
StepAfterFailedOptimization ==
  /\ wf.pc = "anchor"
  /\ wf.optimized
  /\ wf.study = "study error"
  /\ wf.pareto_front = PyList(<<>>)
  /\ wf.active_parameters.source = "optimize"
  /\ wf.active_parameters.step < wf.step_number

\* an infinite value replaced by 1e9 or -1e9 by its sign
Capped(x) == IF x.kind = "inf" THEN Number(x.num * 10^9) ELSE x

\* the null outcomes at least as good as the observed value
AsGoodAsObserved ==
  {k \in 1..Len(arg.sim_values) :
     /\ arg.sim_values[k].kind # "nan"
     /\ arg.observed_value.kind # "nan"
     /\ IF arg.internal_key = "max_drawdown"
        THEN AtLeast(Capped(arg.observed_value), Capped(arg.sim_values[k]))
        ELSE AtLeast(Capped(arg.sim_values[k]), Capped(arg.observed_value))}

\* C24: the p-value of a metric is the number of null outcomes at least as
\* good as the observed value (>=, or <= for max drawdown, infinite values
\* taken as 1e9 or -1e9) over the number N of null outcomes, and lies in
\* [0, 1].
PValueIsFractionAsGood ==
  (arg.f = "p_value" /\ result # NoArg) =>
    /\ result.kind = "ratio"
    /\ result.num * Len(arg.sim_values) = Cardinality(AsGoodAsObserved) * result.den
    /\ 0 <= result.num /\ result.num <= result.den

\* the sum of the p-values of candidate k that are not NaN, in eighths
DefinedSum(k) ==
  LET p == arg.mc_results[k]
      Eighths(x) == IF x.kind = "nan" THEN 0 ELSE (8 * x.num) \div x.den
  IN Eighths(p.profit_factor) + Eighths(p.expectancy_pct)
       + Eighths(p.avg_win_loss_ratio) + Eighths(p.max_drawdown)

EquityIsFlooredTotal ==
  /\ [](\A k \in 1..Len(equity_curve) :
          /\ equity_curve[k].num > 0 /\ equity_curve[k].den > 0
          /\ (1 < k /\ k <= i) =>
               LogReturnDefined(equity_curve[k], equity_curve[k - 1]))
  /\ [][pc = "track" =>
         LET open_i == At(df, i).Open
             total == tm.portfolio_value
                        + SumSeq([k \in 1..Len(tm.active_trades) |->
                                    (open_i - tm.active_trades[k].entry_price)
                                      * tm.active_trades[k].remaining_shares])
         IN equity_curve'[i + 1] =
              IF total > 0 THEN Number(total) ELSE EQUITY_FLOOR]_vars

\* a bar was recorded at the floor, and the bar after it is done
FloorRecorded ==
  /\ pc = "done"
  /\ \E k \in 2..(Len(equity_curve) - 1) : equity_curve[k] = EQUITY_FLOOR

\* the step is a call of trailing_stops
IsTrailingCall == call'.op = "trailing_stops" /\ ncalls' = ncalls + 1

\* the stop of position k after the update of the call
UpdatedStop(k) ==
  TrailRow(tm.active_trades[k], arg'.current_price, arg'.current_atr,
           arg'.adx_value).stop_loss

\* the closed-trade records written by the step
NewRecords == {tm'.trade_log[j] : j \in (Len(tm.trade_log) + 1)..Len(tm'.trade_log)}

\* C28: after trailing_stops every position whose updated stop is at or
\* above the current price is closed in full with a 'Trailing Stop' record,
\* no open position is left with a stop at or above the price, and the call
\* returns True exactly when some updated stop was at or above the price.
TrailingStopsCloseHitPositions ==
  [][IsTrailingCall =>
       LET hit == {k \in 1..Len(tm.active_trades) : UpdatedStop(k) >= arg'.current_price}
       IN /\ \A k \in hit :
               LET p == tm.active_trades[k]
               IN /\ \A q \in RowsOf(tm') : q.position_id # p.position_id
                  /\ \E rec \in NewRecords :
                       /\ rec.position_id = p.position_id
                       /\ rec.reason = "Trailing Stop"
                       /\ rec.is_complete_exit
                       /\ rec.shares = p.remaining_shares
          /\ \A q \in RowsOf(tm') : q.stop_loss < arg'.current_price
          /\ result'.ret <=> hit # {}]_vars

\* a call of trailing_stops on two open positions has closed both
TrailingStopClosedTwo ==
  /\ call.op = "trailing_stops"
  /\ result.ret
  /\ call.n_before = 2
  /\ Len(tm.trade_log) = call.log_before + 2
  /\ \A j \in (call.log_before + 1)..Len(tm.trade_log) :
       tm.trade_log[j].reason = "Trailing Stop"

\* C29: trailing_stops closes only the positions whose stop was hit: a
\* position whose updated stop is below the current price is open after the
\* call with its remaining_shares unchanged, whatever happens to the others.
TrailingStopsKeepOtherPositions ==
  [][IsTrailingCall =>
       \A k \in 1..Len(tm.active_trades) :
         UpdatedStop(k) < arg'.current_price =>
           \E q \in RowsOf(tm') :
             /\ q.position_id = tm.active_trades[k].position_id
             /\ q.remaining_shares = tm.active_trades[k].remaining_shares]_vars

\* C30: for every ADX the ATR multiplier of trailing_stops is the ATR
\* stop-distance multiplier of process_entry.
TrailingMultiplierIsEntryMultiplier ==
  (arg.f = "atr_multiplier" /\ result # NoArg) =>
    result.base_multiplier = result.atr_multiplier

\* the step is a call of position_health
IsHealthCall == call'.op = "position_health" /\ ncalls' = ncalls + 1

\* the trim (percent) of the rule with the highest threshold that the
\* profit factor unrealized / risk meets; 0 when it meets none
HighestTierTrim(rules, unrealized, risk) ==
  LET met == {k \in 1..Len(rules) :
                IF risk > 0 THEN 10 * unrealized >= rules[k][1] * risk
                ELSE 0 >= rules[k][1]}
  IN IF met = {} THEN 0
     ELSE rules[CHOOSE k \in met : \A j \in met : rules[j][1] <= rules[k][1]][2]

\* C31: the portfolio-level profit-taking of position_health applies at most
\* one tier per call, the one with the highest profit-factor threshold that
\* the aggregate profit factor meets (the call is one in which no position
\* is over the duration limit, so the time rule does nothing).
HighestTierIsApplied ==
  [][(/\ IsHealthCall
      /\ \A p \in RowsOf(tm) :
           arg'.current_date - p.entry_date <= arg'.max_position_duration) =>
       LET trim == HighestTierTrim(
                     PROFIT_RULES(StrengthLabel(arg'.current_score, arg'.current_atr,
                                                arg'.current_price)),
                     unrealized_pnl(tm, arg'.current_price),
                     TotalRiskActive(tm.active_trades))
       IN \A p \in RowsOf(tm) :
            LET taken == {rec \in NewRecords : /\ rec.position_id = p.position_id
                                               /\ rec.reason = "Profit Take"}
            IN /\ Cardinality(taken) <= 1
               /\ \A rec \in taken : rec.shares = SharesToExit(p.remaining_shares, trim)
               /\ SharesToExit(p.remaining_shares, trim) > 0 => taken # {}]_vars

\* C32: the time rule of position_health is per position: only a position
\* held for more than max_position_duration days gets a 'Partial Trim' or a
\* 'Max Duration' record, and no position gets two 'Partial Trim' records
\* in one call.
TimeRuleIsPerPosition ==
  [][IsHealthCall =>
       \A p \in RowsOf(tm) :
         LET timed == {j \in (Len(tm.trade_log) + 1)..Len(tm'.trade_log) :
                         /\ tm'.trade_log[j].position_id = p.position_id
                         /\ tm'.trade_log[j].reason \in {"Partial Trim", "Max Duration"}}
         IN /\ arg'.current_date - p.entry_date <= arg'.max_position_duration
                 => timed = {}
            /\ Cardinality({j \in timed : tm'.trade_log[j].reason = "Partial Trim"}) <= 1]_vars

\* C33: an accepted long entry has take_profit = price + 3 * ATR * m, with
\* m = 1 when ADX <= 40 and 1 <= m <= 1.4 when ADX > 40.
TakeProfitBoostAtMost14 ==
  [][(call'.op = "process_entry" /\ ncalls' = ncalls + 1 /\ call'.flag) =>
       LET trade == tm'.active_trades[Len(tm'.active_trades)]
           distance == trade.take_profit - arg'.price
       IN IF arg'.adx <= 40
          THEN distance = 3 * arg'.atr
          ELSE /\ distance >= 3 * arg'.atr
               /\ 10 * distance <= 14 * 3 * arg'.atr]_vars

\* the open positions are within the cap and opened on different bars
OpenPositionsWithinCap ==
  /\ Len(tm.active_trades) <= params.max_positions
  /\ tm.position_count <= params.max_positions
  /\ \A j, k \in DOMAIN tm.active_trades :
       tm.active_trades[j].entry_date = tm.active_trades[k].entry_date => j = k

\* process_entry is called only by the bar's entry step, with the lagged buy
\* signal active and position_count below the cap, and only such a call opens
\* a position, one at most
OpensOnlyBelowCap ==
  /\ (\E r \in bar_calls' \ bar_calls : r.op = "process_entry") =>
       /\ pc = "entry" /\ pc' = "track"
       /\ signal_data.buy_signal
       /\ tm.position_count < params.max_positions
  /\ Len(tm'.active_trades) > Len(tm.active_trades) =>
       /\ \E r \in bar_calls' \ bar_calls : r.op = "process_entry"
       /\ Len(tm'.active_trades) = Len(tm.active_trades) + 1

\* C34: over a run of the loop the number of open positions never exceeds
\* max_positions, no two open positions were opened on the same bar, and a
\* position is opened only by the bar's entry step, when the lagged buy signal
\* is active and position_count is below the cap after the bar's exits.
EntriesRespectCap == []OpenPositionsWithinCap /\ [][OpensOnlyBelowCap]_vars

\* the cap is reached and the bar's entry is skipped although the signal is on
EntrySkippedAtCap ==
  /\ pc = "track"
  /\ signal_data.buy_signal
  /\ Len(tm.active_trades) = params.max_positions
  /\ \A r \in bar_calls : r.op # "process_entry"

\* the head of a loop pass: step_number goes up by one
IsStepHead == wf.pc = "loop" /\ wf'.step_number = wf.step_number + 1

\* the test-window rows the loop has consumed
OosDaysConsumed(w) == Len(w.current_train_raw) - Len(w.initial_is_data_raw)

\* C35: optimize is called at the head of step s exactly when s > 1 and the
\* out-of-sample days consumed since the last attempt (or since the start)
\* are at least OPTIMIZATION_FREQUENCY, which is at the steps 4, 7, ...; it is
\* given the training window grown by every test window consumed so far; and
\* after an attempt the day counter is 0, with or without new parameters.
ReoptimizationOnSchedule ==
  [][IsStepHead =>
       LET s == wf'.step_number
           called == wf'.optimize_calls = wf.optimize_calls + 1
           records == wf.all_step_results
       IN /\ wf'.optimize_calls \in {wf.optimize_calls, wf.optimize_calls + 1}
          /\ called <=> (s > 1 /\ wf.days_processed_since_last_opt
                                     >= OPTIMIZATION_FREQUENCY)
          /\ called <=> (s > 1 /\ (OosDaysConsumed(wf) % OPTIMIZATION_FREQUENCY = 0))
          /\ called =>
               /\ wf'.optimize_input = wf.prepared_current_train
               /\ Len(wf'.optimize_input)
                    = records[1].train_days + OOS_WINDOW * Len(records)
               /\ wf'.optimize_input[Len(wf'.optimize_input)]
                    = records[Len(records)].test_end_date
               /\ wf'.days_processed_since_last_opt = 0]_vars

\* a second attempt, at step 7, that gave no parameters
SecondAttemptGaveNothing ==
  /\ wf.pc = "run"
  /\ wf.step_number = 7
  /\ wf.optimize_calls = 2
  /\ ~YieldsParameters(wf.pareto_front)
  /\ wf.days_processed_since_last_opt = 0

\* the loop has ended (the run did not stop before it)
LoopEnded ==
  /\ wf.pc = "returned"
  /\ wf.result.message \notin
       {"Combined data is empty after preparation. Aborting WFA.",
        "Initial training data is empty after preparation. Aborting WFA."}

\* C36: when the loop has ended, all_step_results holds one record per whole
\* window of the out-of-sample rows supplied, floor(rows / OOS_WINDOW) of
\* them, numbered 1, 2, ... in order.
OneRecordPerOosWindow ==
  LoopEnded =>
    /\ Len(wf.all_step_results) = Len(wf.full_oos_data_raw) \div OOS_WINDOW
    /\ \A k \in DOMAIN wf.all_step_results : wf.all_step_results[k].step = k

SharesClosed(T, id) ==
  SumSeq([k \in 1..Len(T.trade_log) |->
            IF T.trade_log[k].position_id = id THEN T.trade_log[k].shares ELSE 0])

\* C38: after any sequence of exit operations the sum of 'Shares' over the
\* closed-trade records of a position is at most its initial share count.
SharesConserved ==
  \A k \in DOMAIN tm.trade_log :
    SharesClosed(tm, tm.trade_log[k].position_id) <= tm.trade_log[k].original_shares

\* the sum of 'PnL' over the closed-trade records
NetPnlRecorded(T) == SumSeq([k \in 1..Len(T.trade_log) |-> T.trade_log[k].pnl])

\* C39: in every reachable ledger state portfolio_value equals the initial
\* capital plus the sum of net PnL over the closed-trade records, minus the
\* entry commissions of the accepted entries (position_counter counts them;
\* COMMISION is False, so calculate_commission is 0 for any shares and price).
CashConserved ==
  /\ \A p \in RowsOf(tm) :
       p.commission = calculate_commission(p.share_amount, p.entry_price)
  /\ tm.portfolio_value
       = INITIAL_CAPITAL + NetPnlRecorded(tm)
           - tm.position_counter * calculate_commission(1, Dollar)

\* two positions closed by one call, one at a profit and one at a loss
ClosedWithWinAndLoss ==
  /\ call.op = "process_exits"
  /\ tm.position_counter = 2
  /\ tm.active_trades = <<>>
  /\ tm.wins # <<>> /\ tm.losses # <<>>
  /\ tm.portfolio_value # INITIAL_CAPITAL

\* C40: both tiers of the exit-signal step are reached: over the signal
\* records, some record with exit_signal and momentum_score > 50 leads to a
\* 'Partial Exit' and some with exit_signal and momentum_score <= 50 to an
\* 'Exit Signal'.
BothExitTiersReached ==
  <>(arg.f = "exit_step" /\ {"Partial Exit", "Exit Signal"} \subseteq result.reasons)
====
